---- MODULE Spec2Model ----
(***************************************************************************)
(* State-machine model of the LegiScan scrapers.                           *)
(*                                                                         *)
(*   Spec      download_bill_text and download_pdf_bill                    *)
(*             (src/scrapeBillText.py): the proxy loop, the browser        *)
(*             session, the challenge check, the PDF download/convert.     *)
(*   SpecDash  main / scrape_state / _initialize_scraper                   *)
(*             (src/billDashboardScraper.py): the per-jurisdiction sweep.  *)
(*   SpecBatch process_csv_files (src/batch_scrape.py): the per-URL sweep. *)
(*   SpecKey   extract_bill_info (src/scrapeBillText.py).                  *)
(*   SpecExtract the five section extractors of LegiScanScraperSelenium    *)
(*             (src/billDashboardScraper.py) on one parsed page.           *)
(*   SpecWrite save_to_csv and save_to_excel (src/billDashboardScraper.py).*)
(*   SpecHtml  extract_html_bill_text (src/scrapeBillText.py), called      *)
(*             repeatedly for one bill and one download directory.         *)
(*   SpecDelay human_like_delay (src/billDashboardScraper.py).             *)
(*                                                                         *)
(* Python's None is modelled by None (the empty tuple) for paths and by 0  *)
(* for the driver handle and the proxy identity.                           *)
(***************************************************************************)
EXTENDS Integers, Sequences, FiniteSets, TLC

(* ------------------------------ bounds -------------------------------- *)
MaxProxies == 2

MaxPages == 2

MaxStates == 3

MaxFiles == 2

MaxRows == 2

\* path segments of a URL
MaxSegs == 5

\* tables of a sponsors or committees section
MaxTables == 2

\* <tr> rows of a table
MaxTrs == 5

\* records of a dataset handed to save_to_csv or save_to_excel
MaxRecords == 2

\* retrievals of one bill into one download directory
MaxCalls == 2

\* distinct readings of datetime.now() at its one-second resolution
MaxStamps == 2

\* ticks per second of the modelled delays
Unit == 2

\* largest magnitude, in ticks, of a draw of np.random.normal(0, 0.5)
MaxJitter == 6

(* The poll loop of download_pdf_bill sleeps one second per iteration      *)
(* until `timeout = 45` seconds have passed.                               *)
PdfTimeout == 45

VARIABLES
  \* ---- download_bill_text (src/scrapeBillText.py) ----
  use_proxy,      \* argument use_proxy
  proxy_list,     \* argument proxy_list (<<>> models both None and [])
  prefer_format,  \* argument prefer_format: "none", "html" or "pdf"
  url_is_summary, \* '/bill/' in url and '/text/' not in url
  pdf_filename,   \* os.path.basename of the page's PDF href
  pc,             \* position in download_bill_text / download_pdf_bill
  proxy_idx,      \* iterations of `for proxy in proxies_to_try` started
  driver,         \* local `driver`: 0 is None, else the session it refers to
  sessions,       \* browser sessions currently open
  created,        \* number of browser sessions created so far
  pending,        \* how the try body ended, read by the finally clause
  result,         \* local `result` of the current attempt
  returned,       \* "running", "returned" or "raised"
  retval,         \* the value returned to the caller
  tried,          \* proxies of the attempts started, in order
  last_end,       \* how the last finished attempt ended ("none" before)
  cooldowns,      \* time.sleep(20) calls in the current attempt
  rechecks,       \* second inspections of page_source in the current attempt
  branch,         \* extraction path of the current attempt: "none","html","pdf"
  \* ---- download_pdf_bill and the download directory ----
  pdf_path,       \* local `pdf_path` (None until a download was triggered)
  download,       \* the browser's download: "none", "inflight", "done"
  pdf_file,       \* the file at pdf_path in the download directory
  txt_file,       \* the .txt file written by the conversion
  elapsed,        \* seconds slept in the poll loop
  pdf_step,       \* how the last download_pdf_bill call ended ("none" before)
  text_page,      \* <<page>>: the text page as the format check sees it, from its
                  \* load to the step after the check; <<>> at any other time
  nav,            \* <<navigation>>: what find_text_link_on_summary_page met and
                  \* did, in the step after its call; <<>> at any other time
  \* ---- main / scrape_state / _initialize_scraper (billDashboardScraper.py) ----
  states_to_scrape, \* main's list of jurisdiction codes
  d_file,         \* args.file was given
  d_html_content, \* the constructor is given inline html_content
  d_pc,           \* position in main / scrape_state / _initialize_scraper
  d_i,            \* jurisdictions started (enumerate's i + 1)
  d_mode,         \* source branch taken: "none", "inline", "file", "live"
  d_driver,       \* local `driver` of _initialize_scraper (0 is None)
  d_sessions,     \* browser sessions currently open
  d_created,      \* browser sessions created so far
  d_opened,       \* sessions created by the current _initialize_scraper call
  d_soup,         \* self.soup: "none" or "parsed"
  d_marker,       \* the page_source that was parsed holds a challenge marker
  d_exit,         \* how the live fetch's try body ended, or the exception
                  \* that left scrape_state
  results,        \* main's `results` dict, as <<state, status>> in insertion order
  d_waits,        \* time.sleep calls made between two jurisdictions
  d_sections,     \* section -> its scrape_* call of this jurisdiction gave data
  d_io,           \* opening an output file works ("ok") or raises ("fails")
  d_csvs,         \* the sections whose CSV file was written
  d_xlsx,         \* the workbook was written
  \* ---- process_csv_files (src/batch_scrape.py) ----
  b_files,        \* the CSV files of input_dir in os.listdir order
  b_pc,           \* position in process_csv_files
  b_f,            \* files started
  b_r,            \* rows of the current file read
  processed_urls,
  successful_downloads,
  failed_downloads,
  b_attempted,    \* <<file, row>> of every download_bill_text call made
  \* ---- extract_bill_info (src/scrapeBillText.py) ----
  k_url,          \* argument url
  k_pc,           \* "idle", "call" or "done"
  k_key,          \* the value returned
  \* ---- the section extractors (src/billDashboardScraper.py) ----
  x_doc,          \* self.soup: the parsed document
  x_pc,           \* "idle", "scrape" or "done"
  x_fault,        \* the section whose structure lookup raised (0 for none)
  x_out,          \* section -> what its extractor returned
  \* ---- save_to_csv / save_to_excel (src/billDashboardScraper.py) ----
  w_op,           \* the function called: "csv" or "excel" ("none" when idle)
  w_data,         \* save_to_csv's argument data
  w_dict,         \* save_to_excel's argument data_dict
  w_filename,     \* the kind of the argument filename
  w_io,           \* opening the output file works ("ok") or raises ("fails")
  w_pc,           \* "idle", "call" or "done"
  w_ret,          \* "none", "True", "False", or "raised"
  w_dirs,         \* the parent directories were created
  w_file,         \* the CSV file
  w_book,         \* the workbook
  \* ---- extract_html_bill_text (src/scrapeBillText.py) ----
  h_bill,         \* argument bill_name
  h_pc,           \* "idle" or "call"
  h_calls,        \* calls made so far
  h_page,         \* the page the driver showed to the last call
  h_now,          \* datetime.now() as the last call formatted it (0 before)
  h_fault,        \* the step of the last call that raised ("none" for none)
  h_ret,          \* what the last call returned
  h_dir,          \* download_dir: file name -> content
  h_artifacts,    \* names of the files written by the calls that returned a path
  \* ---- human_like_delay (src/billDashboardScraper.py) ----
  l_pc,           \* "idle", "call" or "done"
  l_base,         \* np.random.uniform(2, 7), in ticks
  l_tail,         \* np.random.random() < 0.2
  l_extra,        \* np.random.uniform(5, 15), in ticks (0 when not drawn)
  l_micro,        \* np.random.normal(0, 0.5), in ticks
  l_delay         \* the value returned, in ticks

rvars == <<use_proxy, proxy_list, prefer_format, url_is_summary, pdf_filename,
           pc, proxy_idx, driver, sessions, created, pending, result, returned,
           retval, tried, last_end, cooldowns, rechecks, branch,
           pdf_path, download, pdf_file, txt_file, elapsed, pdf_step,
           text_page, nav>>

dvars == <<states_to_scrape, d_file, d_html_content, d_pc, d_i, d_mode,
           d_driver, d_sessions, d_created, d_opened, d_soup, d_marker,
           d_exit, results, d_waits, d_sections, d_io, d_csvs,
           d_xlsx>>

bvars == <<b_files, b_pc, b_f, b_r, processed_urls, successful_downloads,
           failed_downloads, b_attempted>>

kvars == <<k_url, k_pc, k_key>>

xvars == <<x_doc, x_pc, x_fault, x_out>>

wvars == <<w_op, w_data, w_dict, w_filename, w_io, w_pc, w_ret, w_dirs,
           w_file, w_book>>

hvars == <<h_bill, h_pc, h_calls, h_page, h_now, h_fault, h_ret, h_dir,
           h_artifacts>>

lvars == <<l_pc, l_base, l_tail, l_extra, l_micro, l_delay>>

vars == <<rvars, dvars, bvars, kvars, xvars, wvars, hvars, lvars>>

(* ------------------------------ values -------------------------------- *)
None == <<>>

NoProxy == 0

NoDriver == 0

ProxyNames == 1..MaxProxies

RECURSIVE SeqsUpTo(_, _)
SeqsUpTo(S, n) ==
  IF n = 0 THEN {<<>>}
  ELSE LET shorter == SeqsUpTo(S, n - 1)
       IN  shorter \cup {Append(s, x) : s \in shorter, x \in S}

NoRepeat(s) == \A i, j \in 1..Len(s) : i # j => s[i] # s[j]

\* proxy files hold one endpoint per line; the model uses lists of distinct ones
ProxyLists == {s \in SeqsUpTo(ProxyNames, MaxProxies) : NoRepeat(s)}

PageTexts == {<<>>, <<"a">>, <<"b">>}

PdfContents == SeqsUpTo(PageTexts, MaxPages)

PdfNames == {<<"SB1", "pdf">>, <<"HB2", "pdf">>}

NoFile == [exists |-> FALSE, name |-> None, data |-> <<>>]

HtmlPath == <<"bill", "html">>

\* what is_html_bill_text looks at on the text page; error: a driver call
\* raises before an indicator is found
Pages == [html_marker : BOOLEAN, billtext : BOOLEAN, bill_all : BOOLEAN,
          pdf_elem : BOOLEAN, error : BOOLEAN]

(* ------------------- download_bill_text: helpers ---------------------- *)
\* proxies_to_try = proxy_list if use_proxy and proxy_list else [None]
ProxiesToTry ==
  IF use_proxy /\ proxy_list # <<>> THEN proxy_list ELSE <<NoProxy>>

\* text_filename = os.path.splitext(pdf_filename)[0] + '.txt'
TextFilename(name) == <<name[1], "txt">>

\* a join that puts a single newline between the pages
RECURSIVE JoinPagesOneNewline(_)
JoinPagesOneNewline(pages) ==
  IF Len(pages) = 0 THEN <<>>
  ELSE IF Len(pages) = 1 THEN pages[1]
  ELSE pages[1] \o <<"\n">> \o JoinPagesOneNewline(Tail(pages))

\* '\n\n'.join(text_content): the texts in order, two newlines between them
RECURSIVE JoinPages(_)
JoinPages(pages) ==
  IF Len(pages) = 0 THEN <<>>
  ELSE IF Len(pages) = 1 THEN pages[1]
  ELSE pages[1] \o <<"\n", "\n">> \o JoinPages(Tail(pages))

\* driver.quit(): the session is gone afterwards; a download dies with it
CloseSession(d) == sessions \ {d}

DownloadAfterQuit == IF download = "inflight" THEN "none" ELSE download

\* the per-attempt bookkeeping reset at the top of the loop body
AttemptVars == <<cooldowns, rechecks, branch, result>>

InputVars == <<use_proxy, proxy_list, prefer_format, url_is_summary, pdf_filename>>

PdfVars == <<pdf_path, download, pdf_file, txt_file, elapsed, pdf_step>>

CallVars == <<returned, retval>>

\* frame of the other components
RFrame == UNCHANGED <<dvars, bvars, kvars, xvars, wvars, hvars, lvars>>

DFrame == UNCHANGED <<rvars, bvars, kvars, xvars, wvars, hvars, lvars>>

BFrame == UNCHANGED <<rvars, dvars, kvars, xvars, wvars, hvars, lvars>>

KFrame == UNCHANGED <<rvars, dvars, bvars, xvars, wvars, hvars, lvars>>

\* leave the try body: the finally clause runs next
EndAttempt(how, tag) ==
  /\ pending' = how
  /\ last_end' = tag
  /\ pc' = "finally"

(* ----------------- find_text_link_on_summary_page --------------------- *)
\* what a WebDriverWait(...).until(element_to_be_clickable(...)) lookup ends
\* with: the element, TimeoutException, or another exception; "unused"
\* fills the lookups the function does not reach
LookupAnswers == {"found", "absent", "error"}

\* what following a link ends with (scrollIntoView, the click, the wait for
\* <body>): done, TimeoutException, or another exception
FollowAnswers == {"ok", "timeout", "error"}

Unused == {"unused"}

\* the summary page as find_text_link_on_summary_page meets it; drafts:
\* '/drafts/' in driver.current_url after the tab was followed
SummaryPages ==
  {p \in [status : LookupAnswers, status_follow : FollowAnswers \cup Unused,
          tab : LookupAnswers \cup Unused, tab_follow : FollowAnswers \cup Unused,
          drafts : BOOLEAN, draft : LookupAnswers \cup Unused,
          draft_follow : FollowAnswers \cup Unused] :
     LET tabs_reached == p.status = "absent" \/ p.status_follow = "timeout"
         draft_reached == p.tab_follow = "ok" /\ p.drafts
     IN  /\ (p.status_follow \in Unused <=> p.status # "found")
         /\ (p.tab \in Unused <=> ~tabs_reached)
         /\ (p.tab_follow \in Unused <=> p.tab # "found")
         /\ (p.drafts => p.tab_follow = "ok")
         /\ (p.draft \in Unused <=> ~draft_reached)
         /\ (p.draft_follow \in Unused <=> p.draft # "found")}

\* the three lookups, in the words of their XPaths
LastAction == "bill-last-action"

TextsTab == "tabs"

DraftLink == "draft"

\* lines 150-190: the Texts tab, then on a drafts page the draft link.
\* TimeoutException of the draft lookup or of following it: return False
\* (line 183); any other TimeoutException of this part: return False (line
\* 188); another exception: return False (line 192)
TabsPart(p, lookups, clicks) ==
  LET looked == Append(lookups, TextsTab)
      clicked == Append(clicks, TextsTab)
  IN  IF p.tab # "found"
      THEN [found |-> FALSE, lookups |-> looked, clicks |-> clicks]
      ELSE IF p.tab_follow # "ok"
      THEN [found |-> FALSE, lookups |-> looked, clicks |-> clicked]
      ELSE IF ~p.drafts
      THEN [found |-> TRUE, lookups |-> looked, clicks |-> clicked]
      ELSE IF p.draft # "found"
      THEN [found |-> FALSE, lookups |-> Append(looked, DraftLink),
            clicks |-> clicked]
      ELSE [found |-> p.draft_follow = "ok",
            lookups |-> Append(looked, DraftLink),
            clicks |-> Append(clicked, DraftLink)]

\* find_text_link_on_summary_page: the link of the status section first
\* (lines 131-145); `except TimeoutException` (line 146) covers the lookup
\* and the following of the link alike and goes on to the tabs
FindTextLinkOnSummaryPage(p) ==
  IF p.status = "error"
  THEN [found |-> FALSE, lookups |-> <<LastAction>>, clicks |-> <<>>]
  ELSE IF p.status = "absent"
  THEN TabsPart(p, <<LastAction>>, <<>>)
  ELSE IF p.status_follow = "ok"
  THEN [found |-> TRUE, lookups |-> <<LastAction>>, clicks |-> <<LastAction>>]
  ELSE IF p.status_follow = "timeout"
  THEN TabsPart(p, <<LastAction>>, <<LastAction>>)
  ELSE [found |-> FALSE, lookups |-> <<LastAction>>, clicks |-> <<LastAction>>]

\* the page met, the lookups made and the links followed, in order
Navigation(p) ==
  [page |-> p,
   lookups |-> FindTextLinkOnSummaryPage(p).lookups,
   clicks |-> FindTextLinkOnSummaryPage(p).clicks]

(* -------------------- download_bill_text: the loop -------------------- *)
\* for proxy in proxies_to_try: (one more proxy left)
StartAttempt ==
  /\ pc = "loop" /\ returned = "running"
  /\ proxy_idx < Len(ProxiesToTry)
  /\ proxy_idx' = proxy_idx + 1
  /\ tried' = Append(tried, ProxiesToTry[proxy_idx + 1])
  /\ cooldowns' = 0 /\ rechecks' = 0 /\ branch' = "none"
  /\ pending' = "none"
  /\ pc' = "setup"
  /\ UNCHANGED <<InputVars, driver, sessions, created, result, CallVars,
                 last_end, PdfVars>>
  /\ text_page' = <<>> /\ nav' = <<>>
  /\ RFrame

\* the loop is exhausted: return None
ReturnNone ==
  /\ pc = "loop" /\ returned = "running"
  /\ proxy_idx = Len(ProxiesToTry)
  /\ returned' = "returned" /\ retval' = None
  /\ pc' = "done"
  /\ UNCHANGED <<InputVars, proxy_idx, driver, sessions, created, pending,
                 result, tried, last_end, AttemptVars, PdfVars>>
  /\ text_page' = <<>> /\ nav' = <<>>
  /\ RFrame

(* setup_undetected_driver: uc.Chrome(...), set_window_size(...), return.  *)
(* Its except clause logs and re-raises without quitting what it created.  *)
SetupOk ==
  /\ pc = "setup"
  /\ created' = created + 1
  /\ sessions' = sessions \cup {created + 1}
  /\ driver' = created + 1
  /\ pc' = "nav"
  /\ UNCHANGED <<InputVars, proxy_idx, pending, result, CallVars, tried,
                 last_end, cooldowns, rechecks, branch, PdfVars>>
  /\ text_page' = <<>> /\ nav' = <<>>
  /\ RFrame

\* uc.Chrome(options=options) raises: nothing was created
SetupChromeFails ==
  /\ pc = "setup"
  /\ EndAttempt("except", "setup_error")
  /\ UNCHANGED <<InputVars, proxy_idx, driver, sessions, created, result,
                 CallVars, tried, cooldowns, rechecks, branch, PdfVars>>
  /\ text_page' = <<>> /\ nav' = <<>>
  /\ RFrame

\* uc.Chrome succeeded, driver.set_window_size raises: the browser exists,
\* the caller's `driver` was never assigned
SetupWindowFails ==
  /\ pc = "setup"
  /\ created' = created + 1
  /\ sessions' = sessions \cup {created + 1}
  /\ EndAttempt("except", "setup_error")
  /\ UNCHANGED <<InputVars, proxy_idx, driver, result, CallVars, tried,
                 cooldowns, rechecks, branch, PdfVars>>
  /\ text_page' = <<>> /\ nav' = <<>>
  /\ RFrame

\* driver.get(url); WebDriverWait(...).until(body present); clear storage
NavOk ==
  /\ pc = "nav"
  /\ pc' = "check"
  /\ UNCHANGED <<InputVars, proxy_idx, driver, sessions, created, pending,
                 result, CallVars, tried, last_end, AttemptVars, PdfVars>>
  /\ text_page' = <<>> /\ nav' = <<>>
  /\ RFrame

\* a driver call of the try body raises: except Exception logs it
DriverRaises ==
  /\ pc \in {"nav", "check", "recheck"}
  /\ EndAttempt("except", "exception")
  /\ UNCHANGED <<InputVars, proxy_idx, driver, sessions, created, result,
                 CallVars, tried, cooldowns, rechecks, branch, PdfVars>>
  /\ text_page' = <<>> /\ nav' = <<>>
  /\ RFrame

\* first inspection of driver.page_source: no challenge marker
CheckClean ==
  /\ pc = "check"
  /\ pc' = "route"
  /\ UNCHANGED <<InputVars, proxy_idx, driver, sessions, created, pending,
                 result, CallVars, tried, last_end, AttemptVars, PdfVars>>
  /\ text_page' = <<>> /\ nav' = <<>>
  /\ RFrame

\* a marker is present: time.sleep(20)
CheckChallenge ==
  /\ pc = "check"
  /\ cooldowns' = cooldowns + 1
  /\ pc' = "recheck"
  /\ UNCHANGED <<InputVars, proxy_idx, driver, sessions, created, pending,
                 result, CallVars, tried, last_end, rechecks, branch,
                 PdfVars>>
  /\ text_page' = <<>> /\ nav' = <<>>
  /\ RFrame

\* second inspection: the marker is gone
RecheckClean ==
  /\ pc = "recheck"
  /\ rechecks' = rechecks + 1
  /\ pc' = "route"
  /\ UNCHANGED <<InputVars, proxy_idx, driver, sessions, created, pending,
                 result, CallVars, tried, last_end, cooldowns, branch,
                 PdfVars>>
  /\ text_page' = <<>> /\ nav' = <<>>
  /\ RFrame

\* second inspection: still blocked
RecheckBlocked ==
  /\ pc = "recheck"
  /\ rechecks' = rechecks + 1
  /\ pc' = "quit_blocked"
  /\ UNCHANGED <<InputVars, proxy_idx, driver, sessions, created, pending,
                 result, CallVars, tried, last_end, cooldowns, branch,
                 PdfVars>>
  /\ text_page' = <<>> /\ nav' = <<>>
  /\ RFrame

QuitTag == IF pc = "quit_blocked" THEN "blocked" ELSE "nolink"

\* driver.quit(); driver = None; continue
QuitAndContinue ==
  /\ pc \in {"quit_blocked", "quit_nolink"}
  /\ sessions' = CloseSession(driver)
  /\ download' = DownloadAfterQuit
  /\ driver' = NoDriver
  /\ EndAttempt("continue", QuitTag)
  /\ UNCHANGED <<InputVars, proxy_idx, created, result, CallVars, tried,
                 cooldowns, rechecks, branch, pdf_path, pdf_file, txt_file,
                 elapsed, pdf_step>>
  /\ text_page' = <<>> /\ nav' = <<>>
  /\ RFrame

\* driver.quit() raises inside the try body: `driver = None` is skipped
QuitInBodyRaises ==
  /\ pc \in {"quit_blocked", "quit_nolink"}
  /\ sessions' = CloseSession(driver)
  /\ download' = DownloadAfterQuit
  /\ EndAttempt("except", QuitTag)
  /\ UNCHANGED <<InputVars, proxy_idx, driver, created, result, CallVars,
                 tried, cooldowns, rechecks, branch, pdf_path, pdf_file,
                 txt_file, elapsed, pdf_step>>
  /\ text_page' = <<>> /\ nav' = <<>>
  /\ RFrame

\* if '/bill/' in url and '/text/' not in url: ... else straight on
RouteDirect ==
  /\ pc = "route" /\ ~url_is_summary
  /\ pc' = "classify"
  /\ \E page \in Pages : text_page' = <<page>>
  /\ nav' = <<>>
  /\ UNCHANGED <<InputVars, proxy_idx, driver, sessions, created, pending,
                 result, CallVars, tried, last_end, AttemptVars, PdfVars>>
  /\ RFrame

\* find_text_link_on_summary_page(driver) returned True
RouteLinkFound ==
  /\ pc = "route" /\ url_is_summary
  /\ \E summary \in SummaryPages :
       /\ FindTextLinkOnSummaryPage(summary).found
       /\ nav' = <<Navigation(summary)>>
  /\ pc' = "classify"
  /\ \E page \in Pages : text_page' = <<page>>
  /\ UNCHANGED <<InputVars, proxy_idx, driver, sessions, created, pending,
                 result, CallVars, tried, last_end, AttemptVars, PdfVars>>
  /\ RFrame

\* find_text_link_on_summary_page(driver) returned False
RouteLinkMissing ==
  /\ pc = "route" /\ url_is_summary
  /\ \E summary \in SummaryPages :
       /\ ~FindTextLinkOnSummaryPage(summary).found
       /\ nav' = <<Navigation(summary)>>
  /\ pc' = "quit_nolink"
  /\ UNCHANGED <<InputVars, proxy_idx, driver, sessions, created, pending,
                 result, CallVars, tried, last_end, AttemptVars, PdfVars>>
  /\ text_page' = <<>>
  /\ RFrame

(* ------------------------ format classification ----------------------- *)
\* a check that looks for the PDF indicators before the HTML ones
IsHtmlUnlessPdf(page) ==
  IF page.error THEN FALSE
  ELSE IF page.pdf_elem THEN FALSE
  ELSE TRUE

\* is_html_bill_text: '[HTML]' in page_source, .billtext, #bill_all, then
\* "a PDF object or link means PDF, none means HTML"; any error gives False
IsHtmlBillText(page) ==
  IF page.error THEN FALSE
  ELSE IF page.html_marker THEN TRUE
  ELSE IF page.billtext THEN TRUE
  ELSE IF page.bill_all THEN TRUE
  ELSE ~page.pdf_elem

\* a routing in which only the 'html' preference overrides the check
TakesHtmlPathPdfUnforced(page) ==
  prefer_format = "html" \/ IsHtmlBillText(page)

\* prefer_format == 'html' or (is_html_bill_text(driver) and prefer_format != 'pdf')
TakesHtmlPath(page) ==
  prefer_format = "html" \/ (IsHtmlBillText(page) /\ prefer_format # "pdf")

Classify ==
  /\ pc = "classify"
  /\ IF TakesHtmlPath(text_page[1])
     THEN /\ branch' = "html" /\ pc' = "html"
          /\ UNCHANGED <<pdf_path, elapsed, pdf_step>>
     ELSE /\ branch' = "pdf" /\ pc' = "pdf_find"
          \* download_pdf_bill starts: pdf_path = None
          /\ pdf_path' = None /\ elapsed' = 0 /\ pdf_step' = "running"
  /\ UNCHANGED text_page
  /\ nav' = <<>>
  /\ UNCHANGED <<InputVars, proxy_idx, driver, sessions, created, pending,
                 result, CallVars, tried, last_end, cooldowns, rechecks,
                 download, pdf_file, txt_file>>
  /\ RFrame

\* result = extract_html_bill_text(...); if result: return result
HtmlExtract ==
  /\ pc = "html"
  /\ \E ok \in BOOLEAN :
       /\ result' = IF ok THEN HtmlPath ELSE None
       /\ EndAttempt(IF ok THEN "return" ELSE "fall",
                     IF ok THEN "success" ELSE "failed")
  /\ UNCHANGED <<InputVars, proxy_idx, driver, sessions, created, CallVars,
                 tried, cooldowns, rechecks, branch, PdfVars>>
  /\ text_page' = <<>> /\ nav' = <<>>
  /\ RFrame

(* --------------------------- download_pdf_bill ------------------------ *)
\* download_pdf_bill returns `res`; download_bill_text: if result: return result
PdfReturn(res, how) ==
  /\ result' = res
  /\ pdf_step' = how
  /\ EndAttempt(IF res # None THEN "return" ELSE "fall",
                IF res # None THEN "success" ELSE "failed")

\* a clickable //a[contains(@href,'.pdf')]: click it, pdf_path = dir/basename
PdfLinkFound ==
  /\ pc = "pdf_find"
  /\ pdf_path' = pdf_filename
  /\ download' = "inflight"
  /\ pc' = "pdf_poll"
  /\ UNCHANGED <<InputVars, proxy_idx, driver, sessions, created, pending,
                 result, CallVars, tried, last_end, AttemptVars, pdf_file,
                 txt_file, elapsed, pdf_step>>
  /\ text_page' = <<>> /\ nav' = <<>>
  /\ RFrame

\* WebDriverWait raised TimeoutException: look for an embedded object
PdfLinkAbsent ==
  /\ pc = "pdf_find"
  /\ pc' = "pdf_object"
  /\ UNCHANGED <<InputVars, proxy_idx, driver, sessions, created, pending,
                 result, CallVars, tried, last_end, AttemptVars, PdfVars>>
  /\ text_page' = <<>> /\ nav' = <<>>
  /\ RFrame

\* //object[@type='application/pdf'] with a .pdf data url: driver.get(pdf_url)
PdfObjectFound ==
  /\ pc = "pdf_object"
  /\ pdf_path' = pdf_filename
  /\ download' = "inflight"
  /\ pc' = "pdf_poll"
  /\ UNCHANGED <<InputVars, proxy_idx, driver, sessions, created, pending,
                 result, CallVars, tried, last_end, AttemptVars, pdf_file,
                 txt_file, elapsed, pdf_step>>
  /\ text_page' = <<>> /\ nav' = <<>>
  /\ RFrame

\* no object (or its url is no .pdf): "Could not find any PDF to download"
PdfObjectAbsent ==
  /\ pc = "pdf_object"
  /\ PdfReturn(None, "nopdf")
  /\ UNCHANGED <<InputVars, proxy_idx, driver, sessions, created, CallVars,
                 tried, cooldowns, rechecks, branch, pdf_path, download,
                 pdf_file, txt_file, elapsed>>
  /\ text_page' = <<>> /\ nav' = <<>>
  /\ RFrame

\* another driver error while looking: the outer except Exception; pdf_path
\* is still None there, so nothing is removed
PdfFindRaises ==
  /\ pc \in {"pdf_find", "pdf_object"}
  /\ PdfReturn(None, "error")
  /\ UNCHANGED <<InputVars, proxy_idx, driver, sessions, created, CallVars,
                 tried, cooldowns, rechecks, branch, pdf_path, download,
                 pdf_file, txt_file, elapsed>>
  /\ text_page' = <<>> /\ nav' = <<>>
  /\ RFrame

\* while not os.path.exists(pdf_path) and time.time() - start_time < timeout:
\*     time.sleep(1)
PollSleep ==
  /\ pc = "pdf_poll"
  /\ ~pdf_file.exists /\ elapsed < PdfTimeout
  /\ elapsed' = elapsed + 1
  /\ UNCHANGED <<InputVars, pc, proxy_idx, driver, sessions, created, pending,
                 result, CallVars, tried, last_end, AttemptVars, pdf_path,
                 download, pdf_file, txt_file, pdf_step>>
  /\ text_page' = <<>> /\ nav' = <<>>
  /\ RFrame

\* the loop condition fails; start_time is not read again
PollExit ==
  /\ pc = "pdf_poll"
  /\ ~(~pdf_file.exists /\ elapsed < PdfTimeout)
  /\ pc' = "pdf_check"
  /\ elapsed' = 0
  /\ UNCHANGED <<InputVars, proxy_idx, driver, sessions, created, pending,
                 result, CallVars, tried, last_end, AttemptVars, pdf_path,
                 download, pdf_file, txt_file, pdf_step>>
  /\ text_page' = <<>> /\ nav' = <<>>
  /\ RFrame

\* the browser finishes writing the download into the download directory
DownloadArrives ==
  /\ download = "inflight"
  /\ \E content \in PdfContents :
       pdf_file' = [exists |-> TRUE, name |-> pdf_path, data |-> content]
  /\ download' = "done"
  /\ UNCHANGED <<InputVars, pc, proxy_idx, driver, sessions, created, pending,
                 result, CallVars, tried, last_end, AttemptVars, pdf_path,
                 txt_file, elapsed, pdf_step>>
  /\ text_page' = <<>> /\ nav' = <<>>
  /\ RFrame

\* if os.path.exists(pdf_path): ... (convert)
PdfFileSeen ==
  /\ pc = "pdf_check"
  /\ pdf_file.exists
  /\ pc' = "pdf_convert"
  /\ UNCHANGED <<InputVars, proxy_idx, driver, sessions, created, pending,
                 result, CallVars, tried, last_end, AttemptVars, PdfVars>>
  /\ text_page' = <<>> /\ nav' = <<>>
  /\ RFrame

\* else: "Download timed out or failed"; return None
PdfTimedOut ==
  /\ pc = "pdf_check"
  /\ ~pdf_file.exists
  /\ PdfReturn(None, "timeout")
  /\ UNCHANGED <<InputVars, proxy_idx, driver, sessions, created, CallVars,
                 tried, cooldowns, rechecks, branch, pdf_path, download,
                 pdf_file, txt_file, elapsed>>
  /\ text_page' = <<>> /\ nav' = <<>>
  /\ RFrame

\* with open(text_path, 'w') as f: f.write('\n\n'.join(text_content))
WrittenText(pages) ==
  [exists |-> TRUE, name |-> TextFilename(pdf_path), data |-> JoinPages(pages)]

\* the text file is opened only after every page was extracted: an error
\* while extracting leaves the directory's .txt as it was
TextAfterExtractError == txt_file

\* every page.extract_text() succeeds: write the text, os.remove(pdf_path),
\* return text_path
PdfConvertOk ==
  /\ pc = "pdf_convert"
  /\ txt_file' = WrittenText(pdf_file.data)
  /\ pdf_file' = NoFile
  /\ PdfReturn(TextFilename(pdf_path), "ok")
  /\ UNCHANGED <<InputVars, proxy_idx, driver, sessions, created, CallVars,
                 tried, cooldowns, rechecks, branch, pdf_path, download,
                 elapsed>>
  /\ text_page' = <<>> /\ nav' = <<>>
  /\ RFrame

\* PdfReader or a page's extract_text raises: except Exception removes the
\* PDF and returns None
PdfConvertRaises ==
  /\ pc = "pdf_convert"
  /\ txt_file' = TextAfterExtractError
  /\ pdf_file' = NoFile
  /\ PdfReturn(None, "convfail")
  /\ UNCHANGED <<InputVars, proxy_idx, driver, sessions, created, CallVars,
                 tried, cooldowns, rechecks, branch, pdf_path, download,
                 elapsed>>
  /\ text_page' = <<>> /\ nav' = <<>>
  /\ RFrame

(* ----------------------- the finally clause --------------------------- *)
\* what follows the finally clause: the pending return, or the next
\* iteration
AfterFinally ==
  IF pending = "return"
  THEN /\ returned' = "returned" /\ retval' = result /\ pc' = "done"
  ELSE /\ pc' = "loop" /\ UNCHANGED CallVars

\* if driver: driver.quit(); driver = None
FinallyQuit ==
  /\ pc = "finally" /\ driver # NoDriver
  /\ sessions' = CloseSession(driver)
  /\ download' = DownloadAfterQuit
  /\ driver' = NoDriver
  /\ AfterFinally
  /\ UNCHANGED <<InputVars, proxy_idx, created, pending, result, tried,
                 last_end, AttemptVars, pdf_path, pdf_file, txt_file,
                 elapsed, pdf_step>>
  /\ text_page' = <<>> /\ nav' = <<>>
  /\ RFrame

\* driver is None: nothing to close
FinallySkip ==
  /\ pc = "finally" /\ driver = NoDriver
  /\ AfterFinally
  /\ UNCHANGED <<InputVars, proxy_idx, driver, sessions, created, pending,
                 result, tried, last_end, AttemptVars, PdfVars>>
  /\ text_page' = <<>> /\ nav' = <<>>
  /\ RFrame

\* driver.quit() raises inside the finally clause: the exception replaces
\* any pending return and leaves download_bill_text
FinallyQuitRaises ==
  /\ pc = "finally" /\ driver # NoDriver
  /\ sessions' = CloseSession(driver)
  /\ download' = DownloadAfterQuit
  /\ returned' = "raised"
  /\ pc' = "done"
  /\ UNCHANGED <<InputVars, proxy_idx, driver, created, pending, result,
                 retval, tried, last_end, AttemptVars, pdf_path, pdf_file,
                 txt_file, elapsed, pdf_step>>
  /\ text_page' = <<>> /\ nav' = <<>>
  /\ RFrame

(* --------------------------- specification ---------------------------- *)
\* the callers pass a proxy list only together with use_proxy
\* (scrapeBillText.py:600-608, batch_scrape.py:118-131)
RInputs ==
  /\ use_proxy \in BOOLEAN
  /\ proxy_list \in ProxyLists
  /\ (proxy_list # <<>> => use_proxy)
  /\ prefer_format \in {"none", "html", "pdf"}
  /\ url_is_summary \in BOOLEAN
  /\ pdf_filename \in PdfNames

\* no download_bill_text call is in progress
RNoInputs ==
  /\ use_proxy = FALSE /\ proxy_list = <<>> /\ prefer_format = "none"
  /\ url_is_summary = FALSE /\ pdf_filename = <<"SB1", "pdf">>

RStart ==
  /\ proxy_idx = 0
  /\ driver = NoDriver /\ sessions = {} /\ created = 0
  /\ pending = "none" /\ result = None
  /\ returned = "running" /\ retval = None
  /\ tried = <<>> /\ last_end = "none"
  /\ cooldowns = 0 /\ rechecks = 0 /\ branch = "none"
  /\ pdf_path = None /\ download = "none"
  /\ pdf_file = NoFile /\ txt_file = NoFile
  /\ elapsed = 0 /\ pdf_step = "none"
  /\ text_page = <<>> /\ nav = <<>>

RInit == RInputs /\ RStart /\ pc = "loop"

RIdle == RNoInputs /\ RStart /\ pc = "idle"

RNext ==
  \/ StartAttempt \/ ReturnNone
  \/ SetupOk \/ SetupChromeFails \/ SetupWindowFails
  \/ NavOk \/ DriverRaises
  \/ CheckClean \/ CheckChallenge \/ RecheckClean \/ RecheckBlocked
  \/ QuitAndContinue \/ QuitInBodyRaises
  \/ RouteDirect \/ RouteLinkFound \/ RouteLinkMissing
  \/ Classify \/ HtmlExtract
  \/ PdfLinkFound \/ PdfLinkAbsent \/ PdfObjectFound \/ PdfObjectAbsent
  \/ PdfFindRaises \/ PollSleep \/ PollExit \/ DownloadArrives
  \/ PdfFileSeen \/ PdfTimedOut \/ PdfConvertOk \/ PdfConvertRaises
  \/ FinallyQuit \/ FinallySkip \/ FinallyQuitRaises

(* ====================================================================== *)
(*        billDashboardScraper.py: main, scrape_state, the fetcher        *)
(* ====================================================================== *)
AllCodes == <<"AK", "CA", "TX", "NY", "US">>

StateCodes == {AllCodes[k] : k \in 1..MaxStates}

\* --state gives one code, --states a list without duplicates, --all the
\* fixed list: the codes of a run are pairwise different
StateLists == {s \in SeqsUpTo(StateCodes, MaxStates) : NoRepeat(s)}

\* results[state] = status on an insertion-ordered dict
DictSet(d, k, v) ==
  IF \E n \in 1..Len(d) : d[n][1] = k
  THEN [n \in 1..Len(d) |-> IF d[n][1] = k THEN <<k, v>> ELSE d[n]]
  ELSE Append(d, <<k, v>>)

CurState == states_to_scrape[d_i]

\* current_file_path = args.file if (args.file and (total_states == 1 or i == 0)) else None
CurrentFilePath == d_file /\ (Len(states_to_scrape) = 1 \/ d_i = 1)

\* _initialize_scraper: if html_content: ... elif file_path: ... else: (live)
SourceMode ==
  IF d_html_content THEN "inline"
  ELSE IF CurrentFilePath THEN "file"
  ELSE "live"

\* the five sections of a dashboard page
Sections == 1..5

\* no section yielded data
NoData == [k \in Sections |-> FALSE]

SaveVars == <<d_sections, d_io, d_csvs, d_xlsx>>

RunVars == <<states_to_scrape, d_file, d_html_content>>

FetchVars == <<d_mode, d_driver, d_sessions, d_created, d_opened, d_soup,
               d_marker, d_exit>>

\* for i, state in enumerate(states_to_scrape): (one more jurisdiction)
DashNextState ==
  /\ d_pc = "loop" /\ d_i < Len(states_to_scrape)
  /\ d_i' = d_i + 1
  /\ d_mode' = "none" /\ d_opened' = 0 /\ d_soup' = "none"
  /\ d_marker' = FALSE /\ d_exit' = "none"
  /\ d_pc' = "init"
  /\ d_sections' = NoData /\ d_io' = "ok" /\ d_csvs' = {} /\ d_xlsx' = FALSE
  /\ UNCHANGED <<RunVars, d_driver, d_sessions, d_created, results, d_waits>>
  /\ DFrame

\* the loop is over: the summary is printed
DashSweepDone ==
  /\ d_pc = "loop" /\ d_i = Len(states_to_scrape)
  /\ d_pc' = "done"
  /\ UNCHANGED <<RunVars, d_i, FetchVars, results>>
  /\ UNCHANGED <<d_waits, SaveVars>>
  /\ DFrame

\* scrape_state: LegiScanScraperSelenium(state=state, file_path=file_path)
DashChooseSource ==
  /\ d_pc = "init"
  /\ d_mode' = SourceMode
  /\ d_soup' = IF SourceMode = "inline" THEN "parsed" ELSE d_soup
  /\ d_pc' = CASE SourceMode = "inline" -> "scrape"
               [] SourceMode = "file" -> "file_load"
               [] OTHER -> "fetch_start"
  /\ UNCHANGED <<RunVars, d_i, d_driver, d_sessions, d_created, d_opened,
                 d_marker, d_exit, results>>
  /\ UNCHANGED <<d_waits, SaveVars>>
  /\ DFrame

\* file mode: the file is read and parsed, or except Exception returns None
DashFileLoad ==
  /\ d_pc = "file_load"
  /\ \E ok \in BOOLEAN : d_soup' = IF ok THEN "parsed" ELSE "none"
  /\ d_pc' = "scrape"
  /\ UNCHANGED <<RunVars, d_i, d_mode, d_driver, d_sessions, d_created,
                 d_opened, d_marker, d_exit, results>>
  /\ UNCHANGED <<d_waits, SaveVars>>
  /\ DFrame

\* driver = webdriver.Chrome(service=service, options=chrome_options)
DashChromeOk ==
  /\ d_pc = "fetch_start"
  /\ d_created' = d_created + 1
  /\ d_opened' = d_opened + 1
  /\ d_sessions' = d_sessions \cup {d_created + 1}
  /\ d_driver' = d_created + 1
  /\ d_pc' = "fetch_nav"
  /\ UNCHANGED <<RunVars, d_i, d_mode, d_soup, d_marker, d_exit, results>>
  /\ UNCHANGED <<d_waits, SaveVars>>
  /\ DFrame

\* webdriver.Chrome raises: except WebDriverException returns None
DashChromeFails ==
  /\ d_pc = "fetch_start"
  /\ d_exit' = "webdriver"
  /\ d_pc' = "fetch_finally"
  /\ UNCHANGED <<RunVars, d_i, d_mode, d_driver, d_sessions, d_created,
                 d_opened, d_soup, d_marker, results>>
  /\ UNCHANGED <<d_waits, SaveVars>>
  /\ DFrame

\* driver.get(url); soup = BeautifulSoup(driver.page_source); return soup.
\* The page source is parsed as it is, whatever it holds.
DashGetOk ==
  /\ d_pc = "fetch_nav"
  /\ d_marker' \in BOOLEAN
  /\ d_soup' = "parsed"
  /\ d_exit' = "return"
  /\ d_pc' = "fetch_finally"
  /\ UNCHANGED <<RunVars, d_i, d_mode, d_driver, d_sessions, d_created,
                 d_opened, results>>
  /\ UNCHANGED <<d_waits, SaveVars>>
  /\ DFrame

\* set_page_load_timeout, get or page_source raises: one of the three
\* except clauses logs and returns None
DashFetchRaises ==
  /\ d_pc = "fetch_nav"
  /\ d_exit' \in {"timeout", "webdriver", "other"}
  /\ d_pc' = "fetch_finally"
  /\ UNCHANGED <<RunVars, d_i, d_mode, d_driver, d_sessions, d_created,
                 d_opened, d_soup, d_marker, results>>
  /\ UNCHANGED <<d_waits, SaveVars>>
  /\ DFrame

\* a finally clause that quits only after a successful fetch
FinallyClosesOnSuccess == d_driver # NoDriver /\ d_exit = "return"

\* finally: if driver: driver.quit()
FinallyCloses == d_driver # NoDriver

DashFinallyQuit ==
  /\ d_pc = "fetch_finally" /\ FinallyCloses
  /\ d_sessions' = d_sessions \ {d_driver}
  /\ d_driver' = NoDriver
  /\ d_pc' = "scrape"
  /\ UNCHANGED <<RunVars, d_i, d_mode, d_created, d_opened, d_soup, d_marker,
                 d_exit, results>>
  /\ UNCHANGED <<d_waits, SaveVars>>
  /\ DFrame

DashFinallySkip ==
  /\ d_pc = "fetch_finally" /\ ~FinallyCloses
  /\ d_driver' = NoDriver
  /\ d_pc' = "scrape"
  /\ UNCHANGED <<RunVars, d_i, d_mode, d_sessions, d_created, d_opened,
                 d_soup, d_marker, d_exit, results>>
  /\ UNCHANGED <<d_waits, SaveVars>>
  /\ DFrame

\* an except clause that gives the sweep up
HandleExceptionAbort ==
  /\ UNCHANGED results
  /\ d_pc' = "done"

\* main: except Exception as e: results[state] = "ERROR"
HandleException ==
  /\ results' = DictSet(results, CurState, "ERROR")
  /\ d_pc' = "wait"

\* driver.quit() raises in the finally clause: the exception leaves
\* _initialize_scraper, the constructor and scrape_state
DashFinallyQuitRaises ==
  /\ d_pc = "fetch_finally" /\ FinallyCloses
  /\ d_sessions' = d_sessions \ {d_driver}
  /\ d_driver' = NoDriver
  /\ d_exit' = "quit_error"
  /\ HandleException
  /\ UNCHANGED <<RunVars, d_i, d_mode, d_created, d_opened, d_soup, d_marker>>
  /\ UNCHANGED <<d_waits, SaveVars>>
  /\ DFrame

\* os.makedirs(state_dir) at the top of scrape_state, or os.makedirs in
\* save_to_excel, raises: nothing in scrape_state catches it
DashUnexpected ==
  /\ d_pc \in {"init", "scrape"}
  /\ d_exit' = "unexpected"
  /\ HandleException
  /\ UNCHANGED <<RunVars, d_i, d_mode, d_driver, d_sessions, d_created,
                 d_opened, d_soup, d_marker>>
  /\ UNCHANGED <<d_waits, SaveVars>>
  /\ DFrame

\* a result that takes one saved section for success
ScrapeStateResultAnySaved(has_data, writes_ok) ==
  IF \A k \in Sections : ~has_data[k] THEN TRUE
  ELSE (\E k \in Sections : has_data[k]) /\ writes_ok

\* scrape_state after the five scrape_* calls: nothing scraped counts as
\* success; otherwise every save_to_csv (False for an empty section) and
\* save_to_excel must return True
ScrapeStateResult(has_data, writes_ok) ==
  IF \A k \in Sections : ~has_data[k] THEN TRUE
  ELSE (\A k \in Sections : has_data[k]) /\ writes_ok

\* the sections whose save_to_csv wrote a file: `if not data: return False`
\* writes none, and open() raising writes none
CsvsWritten(has_data, io) ==
  {k \in Sections : has_data[k] /\ io = "ok"}

\* scrape_state on a parsed page: the five scrape_* results, then
\* `if not any(all_data.values()): return True`, else the five save_to_csv
\* calls and save_to_excel; without a parsed page `return False` comes first.
\* success = scrape_state(...); results[state] = "Success" if success else "Failed"
DashScrape ==
  /\ d_pc = "scrape"
  /\ \E has_data \in (IF d_soup = "none" THEN {NoData}
                       ELSE [Sections -> BOOLEAN]),
        io \in (IF d_soup = "none" THEN {"ok"} ELSE {"ok", "fails"}) :
       LET some == \E k \in Sections : has_data[k]
           success == IF d_soup = "none" THEN FALSE
                      ELSE ScrapeStateResult(has_data, io = "ok")
       IN  /\ results' = DictSet(results, CurState,
                                 IF success THEN "Success" ELSE "Failed")
           /\ d_sections' = has_data
           /\ d_io' = io
           /\ d_csvs' = IF some THEN CsvsWritten(has_data, io) ELSE {}
           /\ d_xlsx' = (some /\ io = "ok")
  /\ d_pc' = "wait"
  /\ UNCHANGED <<RunVars, d_i, FetchVars, d_waits>>
  /\ DFrame

\* a condition that holds after the last jurisdiction as well
MoreThanOneState == Len(states_to_scrape) > 1

\* if len(states_to_scrape) > 1 and i < total_states - 1:
MoreStatesToProcess ==
  Len(states_to_scrape) > 1 /\ d_i < Len(states_to_scrape)

\* delay = random.uniform(10, 25); time.sleep(delay)
DashSleep ==
  /\ d_pc = "wait"
  /\ MoreStatesToProcess
  /\ d_waits' = d_waits + 1
  /\ d_pc' = "loop"
  /\ UNCHANGED <<RunVars, d_i, FetchVars, results, SaveVars>>
  /\ DFrame

DashNoSleep ==
  /\ d_pc = "wait"
  /\ ~MoreStatesToProcess
  /\ d_pc' = "loop"
  /\ UNCHANGED <<RunVars, d_i, FetchVars, results>>
  /\ UNCHANGED <<d_waits, SaveVars>>
  /\ DFrame

DStart ==
  /\ d_i = 0 /\ d_mode = "none"
  /\ d_driver = NoDriver /\ d_sessions = {} /\ d_created = 0 /\ d_opened = 0
  /\ d_soup = "none" /\ d_marker = FALSE /\ d_exit = "none"
  /\ results = <<>> /\ d_waits = 0
  /\ d_sections = NoData /\ d_io = "ok" /\ d_csvs = {} /\ d_xlsx = FALSE

DInit ==
  /\ states_to_scrape \in StateLists
  /\ d_file \in BOOLEAN
  /\ d_html_content \in BOOLEAN
  /\ d_pc = "loop"
  /\ DStart

DIdle ==
  /\ states_to_scrape = <<>> /\ d_file = FALSE /\ d_html_content = FALSE
  /\ d_pc = "idle"
  /\ DStart

DNext ==
  \/ DashNextState \/ DashSweepDone \/ DashChooseSource \/ DashFileLoad
  \/ DashChromeOk \/ DashChromeFails \/ DashGetOk \/ DashFetchRaises
  \/ DashFinallyQuit \/ DashFinallySkip \/ DashFinallyQuitRaises
  \/ DashUnexpected \/ DashScrape \/ DashSleep \/ DashNoSleep

(* ====================================================================== *)
(*                  batch_scrape.py: process_csv_files                    *)
(* ====================================================================== *)
\* a row's value in the URL column: starts with 'http', non-empty without
\* it, or empty
RowKinds == {"http", "bad", "empty"}

\* a .csv file of input_dir: whether its header has the URL column, and
\* its rows
CsvFiles == [has_column : {TRUE}, rows : SeqsUpTo(RowKinds, MaxRows)]
              \cup {[has_column |-> FALSE, rows |-> <<>>]}

CurFile == b_files[b_f]

\* how a download_bill_text call ends for its caller: a path, None, or an
\* exception (driver.quit() raising in its finally clause)
DownloadOutcomes == {"path", "none", "raise"}

Counters == <<processed_urls, successful_downloads, failed_downloads>>

\* for filename in os.listdir(input_dir): (one more .csv file)
BatchNextFile ==
  /\ b_pc = "files" /\ b_f < Len(b_files)
  /\ b_f' = b_f + 1
  /\ b_r' = 0
  /\ b_pc' = "open"
  /\ UNCHANGED <<b_files, Counters, b_attempted>>
  /\ BFrame

\* every file was handled: the summary is logged
BatchDone ==
  /\ b_pc = "files" /\ b_f = Len(b_files)
  /\ b_pc' = "done"
  /\ UNCHANGED <<b_files, b_f, b_r, Counters, b_attempted>>
  /\ BFrame

\* if url_column_name not in reader.fieldnames: ... continue
BatchOpenFile ==
  /\ b_pc = "open"
  /\ b_pc' = IF CurFile.has_column THEN "rows" ELSE "files"
  /\ UNCHANGED <<b_files, b_f, b_r, Counters, b_attempted>>
  /\ BFrame

\* for row_num, row in enumerate(reader, start=2): url = row.get(...)
BatchNextRow ==
  /\ b_pc = "rows" /\ b_r < Len(CurFile.rows)
  /\ b_r' = b_r + 1
  /\ IF CurFile.rows[b_r + 1] = "http"
     THEN /\ processed_urls' = processed_urls + 1
          /\ b_pc' = "call"
     ELSE /\ UNCHANGED processed_urls
          /\ b_pc' = "rows"
  /\ UNCHANGED <<b_files, b_f, successful_downloads, failed_downloads,
                 b_attempted>>
  /\ BFrame

\* the reader is exhausted: on to the next file
BatchEndOfFile ==
  /\ b_pc = "rows" /\ b_r = Len(CurFile.rows)
  /\ b_pc' = "files"
  /\ UNCHANGED <<b_files, b_f, b_r, Counters, b_attempted>>
  /\ BFrame

\* where an exception raised inside the row loop is caught: the
\* `except Exception` of the try that wraps the whole file (line 87)
AfterRowException == "files"

\* file_path = download_bill_text(...); count it; time.sleep(...)
BatchDownload ==
  /\ b_pc = "call"
  /\ b_attempted' = b_attempted \cup {<<b_f, b_r>>}
  /\ \E outcome \in DownloadOutcomes :
       CASE outcome = "path" ->
              /\ successful_downloads' = successful_downloads + 1
              /\ UNCHANGED failed_downloads
              /\ b_pc' = "rows"
         [] outcome = "none" ->
              /\ failed_downloads' = failed_downloads + 1
              /\ UNCHANGED successful_downloads
              /\ b_pc' = "rows"
         [] OTHER ->
              /\ UNCHANGED <<successful_downloads, failed_downloads>>
              /\ b_pc' = AfterRowException
  /\ UNCHANGED <<b_files, b_f, b_r, processed_urls>>
  /\ BFrame

BStart ==
  /\ b_f = 0 /\ b_r = 0
  /\ processed_urls = 0 /\ successful_downloads = 0 /\ failed_downloads = 0
  /\ b_attempted = {}

BInit ==
  /\ b_files \in SeqsUpTo(CsvFiles, MaxFiles)
  /\ b_pc = "files"
  /\ BStart

BIdle ==
  /\ b_files = <<>>
  /\ b_pc = "idle"
  /\ BStart

BNext ==
  \/ BatchNextFile \/ BatchDone \/ BatchOpenFile \/ BatchNextRow
  \/ BatchEndOfFile \/ BatchDownload

(* ====================================================================== *)
(*          billDashboardScraper.py: the five section extractors          *)
(* ====================================================================== *)
(* The parsed document is the sequence of the elements the extractors     *)
(* look at, in document order: the named anchors <a name=...>, the h3/h4  *)
(* headings and the tables of class gaits-browser, all siblings.  A table *)
(* is the sequence of its <tr> rows; a row is one of the RowKinds.        *)
AnchorNames == <<"latest", "sponsors", "committees", "viewed", "monitored">>

\* the sections whose extractor takes up to two tables and labels a chamber
ChamberSections == {2, 3}

\*   "th"      a header row: th cells, no td
\*   "ok_full" 3 td, a link with href and text in the first, every optional
\*             part present
\*   "ok_bare" 3 td, a link with href and text in the first, every optional
\*             part missing or empty
\*   "short"   2 td
\*   "nolink"  3 td, no <a> with an href in the first
\*   "notext"  3 td, a link with href and no text in the first
TrKinds == {"th", "ok_full", "ok_bare", "short", "nolink", "notext"}

HeadingTexts == {"House", "Senate", "Both", "Other"}

Anchor(name) == [kind |-> "a", label |-> name, rows |-> <<>>]

Heading(text) == [kind |-> "h", label |-> text, rows |-> <<>>]

Table(rows) == [kind |-> "table", label |-> "", rows |-> rows]

\* the layouts of one section in a structured page: its anchor, a heading, and
\* its tables, each table a header row and one data row
PlainLayouts ==
  {lay \in [anchor : BOOLEAN, head : {"none"}, tables : {0, 1}] :
     lay.tables = 1 => lay.anchor}

ChamberLayouts ==
  [anchor : BOOLEAN, head : HeadingTexts \cup {"none"}, tables : 0..MaxTables]

RECURSIVE Repeat(_, _)
Repeat(e, n) == IF n = 0 THEN <<>> ELSE <<e>> \o Repeat(e, n - 1)

LayoutElems(k, lay) ==
  (IF lay.anchor THEN <<Anchor(AnchorNames[k])>> ELSE <<>>)
  \o (IF lay.head = "none" THEN <<>> ELSE <<Heading(lay.head)>>)
  \o Repeat(Table(<<"th", "ok_full">>), lay.tables)

RECURSIVE Flatten(_, _)
Flatten(page, k) ==
  IF k > Len(page) THEN <<>> ELSE LayoutElems(k, page[k]) \o Flatten(page, k + 1)

\* pages that vary the structure: which anchors, headings and tables exist
StructDocs ==
  {Flatten(<<l1, l2, l3, l4, l5>>, 1) :
     l1 \in PlainLayouts, l2 \in ChamberLayouts, l3 \in ChamberLayouts,
     l4 \in PlainLayouts, l5 \in PlainLayouts}

\* pages that vary the rows: one section's anchor and one table, which is
\* empty or has its header row and up to MaxTrs - 1 more rows
RowDocs ==
  {<<Anchor(AnchorNames[k]), Table(rows)>> :
     k \in 1..Len(AnchorNames),
     rows \in {<<>>} \cup {<<"th">> \o d : d \in SeqsUpTo(TrKinds, MaxTrs - 1)}}

Docs == StructDocs \cup RowDocs

\* what an extractor returns: None, or a list of records
ReturnsNone == [none |-> TRUE, recs |-> <<>>]

Returns(recs) == [none |-> FALSE, recs |-> recs]

\* `recs if recs else None`
ListOrNone(recs) == IF recs = <<>> THEN ReturnsNone ELSE Returns(recs)

\* a lookup that settles for the first anchor of the document
FindAnchorOrFirst(doc, name) ==
  LET hits == {i \in 1..Len(doc) : doc[i].kind = "a" /\ doc[i].label = name}
      any == {i \in 1..Len(doc) : doc[i].kind = "a"}
  IN IF hits # {} THEN CHOOSE i \in hits : \A h \in hits : i <= h
     ELSE IF any # {} THEN CHOOSE i \in any : \A h \in any : i <= h
     ELSE 0

\* self.soup.find("a", {"name": name}): index of the first such anchor, 0 if none
FindAnchor(doc, name) ==
  LET hits == {i \in 1..Len(doc) : doc[i].kind = "a" /\ doc[i].label = name}
  IN IF hits = {} THEN 0 ELSE CHOOSE i \in hits : \A h \in hits : i <= h

\* anchor.find_next("table", {"class": "gaits-browser"}): 0 if none
FindNextTable(doc, a) ==
  LET hits == {j \in (a + 1)..Len(doc) : doc[j].kind = "table"}
  IN IF hits = {} THEN 0 ELSE CHOOSE j \in hits : \A h \in hits : j <= h

\* anchor.find_next_siblings("table", {"class": "gaits-browser"}, limit=2)
RECURSIVE TablesFrom(_, _, _)
TablesFrom(doc, i, limit) ==
  IF limit = 0 \/ i > Len(doc) THEN <<>>
  ELSE IF doc[i].kind = "table" THEN <<i>> \o TablesFrom(doc, i + 1, limit - 1)
  ELSE TablesFrom(doc, i + 1, limit)

FindNextSiblings(doc, a) == TablesFrom(doc, a + 1, 2)

\* table.find_previous(["h3", "h4"]): 0 if none
FindPrevious(doc, j) ==
  LET hits == {h \in 1..(j - 1) : doc[h].kind = "h"}
  IN IF hits = {} THEN 0 ELSE CHOOSE h \in hits : \A g \in hits : h >= g

\* len(row.find_all("td"))
Columns(kind) == IF kind = "th" THEN 0 ELSE IF kind = "short" THEN 2 ELSE 3

\* `not link or not link.get("href")`
LacksLink(kind) == kind = "nolink"

\* the state code of the scraper (the constructor's default)
XState == <<"AK">>

\* the number of the table at position j among the tables of the document
TableNo(doc, j) == Cardinality({i \in 1..j : doc[i].kind = "table"})

\* the record built from row r of table number t; texts and hrefs are token
\* sequences that name the row they come from, the empty string is <<>>
RowRecord(k, t, r, kind, chamber) ==
  LET id == <<ToString(t), ToString(r)>>
      full == kind # "ok_bare"
      text == IF kind = "notext" THEN <<>> ELSE <<"text">> \o id
      url == <<"https://legiscan.com", "/href">> \o id
      summary == IF full THEN <<"summary">> \o id ELSE <<>>
      count == IF full THEN <<"count">> \o id ELSE <<>>
      rss_url == IF full THEN <<"/rss">> \o id ELSE <<>>
      text_url == IF full THEN <<"https://legiscan.com", "/text">> \o id ELSE <<>>
  IN CASE k = 1 ->
            ("Bill Number" :> text) @@ ("Bill URL" :> url)
            @@ ("Summary" :> summary)
            @@ ("Action" :> IF full THEN <<"action">> \o id ELSE <<"N/A">>)
            @@ ("Action URL" :> IF full THEN <<"https://legiscan.com", "/action">> \o id
                                ELSE <<>>)
            @@ ("Date" :> IF full THEN <<"date">> \o id ELSE <<"N/A">>)
            @@ ("State" :> XState)
       [] k = 2 ->
            ("Name" :> text) @@ ("Party" :> IF full THEN <<"party">> ELSE <<>>)
            @@ ("URL" :> url) @@ ("Bills Count" :> count)
            @@ ("RSS URL" :> rss_url) @@ ("Chamber" :> <<chamber>>)
            @@ ("State" :> XState)
       [] k = 3 ->
            ("Committee Name" :> text) @@ ("URL" :> url)
            @@ ("Bills Count" :> count) @@ ("RSS URL" :> rss_url)
            @@ ("Chamber" :> <<chamber>>) @@ ("State" :> XState)
       [] OTHER ->
            ("Bill Number" :> text) @@ ("Bill URL" :> url)
            @@ ("Summary" :> summary) @@ ("Text URL" :> text_url)
            @@ ("State" :> XState)

\* the row loop leaving at the first row it cannot use
RECURSIVE RowLoopAbort(_, _, _, _, _)
RowLoopAbort(k, doc, j, r, chamber) ==
  IF r > Len(doc[j].rows) THEN <<>>
  ELSE LET kind == doc[j].rows[r]
       IN IF Columns(kind) < 3 \/ LacksLink(kind) THEN <<>>
          ELSE <<RowRecord(k, TableNo(doc, j), r, kind, chamber)>>
               \o RowLoopAbort(k, doc, j, r + 1, chamber)

\* the row loop over table.find_all("tr")[1:], from row r on
RECURSIVE RowLoop(_, _, _, _, _)
RowLoop(k, doc, j, r, chamber) ==
  IF r > Len(doc[j].rows) THEN <<>>
  ELSE LET kind == doc[j].rows[r]
           rest == RowLoop(k, doc, j, r + 1, chamber)
       IN IF Columns(kind) < 3 THEN rest
          ELSE IF LacksLink(kind) THEN rest
          ELSE <<RowRecord(k, TableNo(doc, j), r, kind, chamber)>> \o rest

\* labelling by position only
ChamberByPosition(doc, tables, i) == IF i = 0 THEN "House" ELSE "Senate"

\* the chamber label of table number i (from 0) of the tables found
ChamberOf(doc, tables, i) ==
  IF Len(tables) = 2 THEN (IF i = 0 THEN "House" ELSE "Senate")
  ELSE IF Len(tables) = 1
       THEN LET prev_header == FindPrevious(doc, tables[i + 1])
            IN IF prev_header = 0 THEN "Unknown"
               ELSE IF doc[prev_header].label \in {"House", "Both"} THEN "House"
               ELSE IF doc[prev_header].label = "Senate" THEN "Senate"
               ELSE "Unknown"
       ELSE "Unknown"

RECURSIVE TableLoop(_, _, _, _)
TableLoop(k, doc, tables, i) ==
  IF i >= Len(tables) THEN <<>>
  ELSE RowLoop(k, doc, tables[i + 1], 2, ChamberOf(doc, tables, i))
       \o TableLoop(k, doc, tables, i + 1)

\* the three extractors that take the first table after the anchor; `raises`
\* says that the structure lookup raises, which the outer except turns into None
ScrapeActiveBills(doc, raises) ==
  IF raises THEN ReturnsNone
  ELSE LET latest_anchor == FindAnchor(doc, "latest")
           active_bills_table == FindNextTable(doc, latest_anchor)
       IN IF latest_anchor = 0 THEN ReturnsNone
          ELSE IF active_bills_table = 0 THEN ReturnsNone
          ELSE Returns(RowLoop(1, doc, active_bills_table, 2, ""))

ScrapeViewedBills(doc, raises) ==
  IF raises THEN ReturnsNone
  ELSE LET viewed_anchor == FindAnchor(doc, "viewed")
           viewed_bills_table == FindNextTable(doc, viewed_anchor)
       IN IF viewed_anchor = 0 THEN ReturnsNone
          ELSE IF viewed_bills_table = 0 THEN ReturnsNone
          ELSE ListOrNone(RowLoop(4, doc, viewed_bills_table, 2, ""))

ScrapeMonitoredBills(doc, raises) ==
  IF raises THEN ReturnsNone
  ELSE LET monitored_anchor == FindAnchor(doc, "monitored")
           monitored_bills_table == FindNextTable(doc, monitored_anchor)
       IN IF monitored_anchor = 0 THEN ReturnsNone
          ELSE IF monitored_bills_table = 0 THEN ReturnsNone
          ELSE ListOrNone(RowLoop(5, doc, monitored_bills_table, 2, ""))

\* the two extractors that take up to two sibling tables after the anchor
ScrapeSponsors(doc, raises) ==
  IF raises THEN ReturnsNone
  ELSE LET sponsors_anchor == FindAnchor(doc, "sponsors")
           sponsor_tables == FindNextSiblings(doc, sponsors_anchor)
       IN IF sponsors_anchor = 0 THEN ReturnsNone
          ELSE IF Len(sponsor_tables) < 1 THEN ReturnsNone
          ELSE ListOrNone(TableLoop(2, doc, sponsor_tables, 0))

ScrapeCommittees(doc, raises) ==
  IF raises THEN ReturnsNone
  ELSE LET committees_anchor == FindAnchor(doc, "committees")
           committee_tables == FindNextSiblings(doc, committees_anchor)
       IN IF committees_anchor = 0 THEN ReturnsNone
          ELSE IF Len(committee_tables) < 1 THEN ReturnsNone
          ELSE ListOrNone(TableLoop(3, doc, committee_tables, 0))

\* the five calls of scrape_state, by section number
ScrapeSection(k, doc, raises) ==
  CASE k = 1 -> ScrapeActiveBills(doc, raises)
    [] k = 2 -> ScrapeSponsors(doc, raises)
    [] k = 3 -> ScrapeCommittees(doc, raises)
    [] k = 4 -> ScrapeViewedBills(doc, raises)
    [] OTHER -> ScrapeMonitoredBills(doc, raises)

XFrame == UNCHANGED <<rvars, dvars, bvars, kvars, wvars, hvars, lvars>>

\* scrape_state collects the five sections of the parsed page into all_data;
\* in at most one of the extractors (x_fault, 0 for none) the structure
\* lookup raises
ScrapeSections ==
  /\ x_pc = "scrape"
  /\ \E fault \in {0} \cup Sections :
       /\ x_fault' = fault
       /\ x_out' = [k \in Sections |-> ScrapeSection(k, x_doc, fault = k)]
  /\ x_pc' = "done"
  /\ UNCHANGED x_doc
  /\ XFrame

XStart == x_fault = 0 /\ x_out = [k \in Sections |-> ReturnsNone]

XInit == x_doc \in Docs /\ x_pc = "scrape" /\ XStart

XIdle == x_doc = <<>> /\ x_pc = "idle" /\ XStart

XNext == ScrapeSections

(* ====================================================================== *)
(*          billDashboardScraper.py: save_to_csv and save_to_excel        *)
(* ====================================================================== *)
(* A record is a dict: the sequence of its <<key, value>> pairs in         *)
(* insertion order.  Keys and values are strings, a string being the       *)
(* sequence of its characters.  A dataset is None or a list of records,    *)
(* as the extractors return it.                                            *)
FieldKeys == {<<"a">>, <<"b">>}

\* the values: empty, plain, with the delimiter and a carriage return, with
\* the quote character and a line feed
CellTexts == {<<>>, <<"x">>, <<",", "\r">>, <<"\"", "\n">>}

KeyOrders == {ks \in SeqsUpTo(FieldKeys, Cardinality(FieldKeys)) : ks # <<>> /\ NoRepeat(ks)}

Records ==
  UNION {{[i \in 1..Len(ks) |-> <<ks[i], vs[i]>>] : vs \in [1..Len(ks) -> CellTexts]} :
           ks \in KeyOrders}

Datasets == {ReturnsNone} \cup {Returns(recs) : recs \in SeqsUpTo(Records, MaxRecords)}

\* `not data`: None or the empty list
IsEmpty(data) == data.none \/ data.recs = <<>>

\* list(record.keys())
Keys(rec) == [i \in 1..Len(rec) |-> rec[i][1]]

KeySet(rec) == {rec[i][1] : i \in 1..Len(rec)}

\* rowdict.get(key, restval) with restval = ''
Get(rec, key) ==
  IF key \in KeySet(rec)
  THEN rec[CHOOSE i \in 1..Len(rec) : rec[i][1] = key][2]
  ELSE <<>>

\* the target of a write: the file name has no directory part ("bare"), a
\* directory that exists or can be created ("dir_ok"), or one that cannot
\* be created ("dir_blocked")
Filenames == {"bare", "dir_ok", "dir_blocked"}

\* os.makedirs(os.path.dirname(filename), exist_ok=True) raises: dirname is ''
\* for a bare file name, and a blocked directory cannot be made
MakedirsRaises(filename) == filename \in {"bare", "dir_blocked"}

(* ------------------------- the csv module ----------------------------- *)
\* the characters the writer quotes a field for: delimiter, quotechar and
\* the characters of the line terminator
SpecialChars == {",", "\"", "\r", "\n"}

RECURSIVE Doubled(_)
Doubled(v) ==
  IF v = <<>> THEN <<>>
  ELSE (IF v[1] = "\"" THEN <<"\"", "\"">> ELSE <<v[1]>>) \o Doubled(Tail(v))

\* a field written without doubling the quote characters inside it
EncodeFieldUndoubled(v, alone) ==
  IF (\E i \in 1..Len(v) : v[i] \in SpecialChars) \/ (alone /\ v = <<>>)
  THEN <<"\"">> \o v \o <<"\"">>
  ELSE v

\* QUOTE_MINIMAL: a field is quoted when it holds a special character, or
\* when it is the empty only field of its row; quotes inside are doubled
EncodeField(v, alone) ==
  IF (\E i \in 1..Len(v) : v[i] \in SpecialChars) \/ (alone /\ v = <<>>)
  THEN <<"\"">> \o Doubled(v) \o <<"\"">>
  ELSE v

RECURSIVE JoinFields(_, _)
JoinFields(values, i) ==
  IF i > Len(values) THEN <<>>
  ELSE (IF i > 1 THEN <<",">> ELSE <<>>)
       \o EncodeField(values[i], Len(values) = 1) \o JoinFields(values, i + 1)

\* writer.writerow: the fields, then the line terminator '\r\n'
WriteRow(values) == JoinFields(values, 1) \o <<"\r", "\n">>

\* DictWriter._dict_to_list
DictToList(rec, fieldnames) == [i \in 1..Len(fieldnames) |-> Get(rec, fieldnames[i])]

\* extrasaction='raise': a key outside fieldnames makes writerows raise ValueError
HasExtraKey(rec, fieldnames) ==
  \E k \in KeySet(rec) : \A i \in 1..Len(fieldnames) : fieldnames[i] # k

\* writer.writerows(data) from record i on: the text written and whether it raised
RECURSIVE WriteRows(_, _, _)
WriteRows(recs, fieldnames, i) ==
  IF i > Len(recs) THEN [text |-> <<>>, raised |-> FALSE]
  ELSE IF HasExtraKey(recs[i], fieldnames) THEN [text |-> <<>>, raised |-> TRUE]
  ELSE LET rest == WriteRows(recs, fieldnames, i + 1)
       IN [text |-> WriteRow(DictToList(recs[i], fieldnames)) \o rest.text,
           raised |-> rest.raised]

\* csv.reader over a file opened with newline='': the rows of the text from
\* character i on; st is the state of the parser, field and row what it has
\* collected; a line without any field is no row
RECURSIVE CsvRows(_, _, _, _, _, _)
CsvRows(text, i, st, field, row, rows) ==
  IF i > Len(text)
  THEN IF st = "start_record" THEN rows ELSE Append(rows, Append(row, field))
  ELSE LET c == text[i]
           newline == c \in {"\r", "\n"}
           endrow == CsvRows(text, i + 1, "start_record", <<>>, <<>>,
                             Append(rows, Append(row, field)))
           endfield == CsvRows(text, i + 1, "start_field", <<>>,
                               Append(row, field), rows)
       IN CASE st = "start_record" ->
                 IF newline THEN CsvRows(text, i + 1, "start_record", <<>>, <<>>, rows)
                 ELSE CsvRows(text, i, "start_field", <<>>, <<>>, rows)
            [] st = "start_field" ->
                 IF newline THEN endrow
                 ELSE IF c = "\"" THEN CsvRows(text, i + 1, "in_quoted", <<>>, row, rows)
                 ELSE IF c = "," THEN endfield
                 ELSE CsvRows(text, i + 1, "in_field", <<c>>, row, rows)
            [] st = "in_field" ->
                 IF newline THEN endrow
                 ELSE IF c = "," THEN endfield
                 ELSE CsvRows(text, i + 1, "in_field", Append(field, c), row, rows)
            [] st = "in_quoted" ->
                 IF c = "\"" THEN CsvRows(text, i + 1, "quote_in_quoted", field, row, rows)
                 ELSE CsvRows(text, i + 1, "in_quoted", Append(field, c), row, rows)
            [] OTHER ->
                 IF c = "\"" THEN CsvRows(text, i + 1, "in_quoted", Append(field, c), row, rows)
                 ELSE IF c = "," THEN endfield
                 ELSE IF newline THEN endrow
                 ELSE CsvRows(text, i + 1, "in_field", Append(field, c), row, rows)

\* csv.DictReader: the first row gives the field names, every other row a
\* dict in that key order
DictReader(text) ==
  LET rows == CsvRows(text, 1, "start_record", <<>>, <<>>, <<>>)
  IN IF rows = <<>> THEN [fieldnames |-> <<>>, recs |-> <<>>]
     ELSE [fieldnames |-> rows[1],
           recs |-> [r \in 1..(Len(rows) - 1) |->
                       [i \in 1..Len(rows[1]) |->
                          <<rows[1][i],
                            IF i <= Len(rows[r + 1]) THEN rows[r + 1][i] ELSE <<>>>>]]]

(* --------------------------- save_to_csv ------------------------------ *)
NoCsv == [exists |-> FALSE, text |-> <<>>]

WFrame == UNCHANGED <<rvars, dvars, bvars, kvars, xvars, hvars, lvars>>

SaveToCsv ==
  /\ w_pc = "call" /\ w_op = "csv"
  /\ IF IsEmpty(w_data)
     THEN \* `if not data: return False`
          w_ret' = "False" /\ UNCHANGED <<w_dirs, w_file>>
     ELSE IF MakedirsRaises(w_filename)
     THEN \* os.makedirs raises inside the try: except Exception, return False
          w_ret' = "False" /\ UNCHANGED <<w_dirs, w_file>>
     ELSE IF w_io = "fails"
     THEN \* open(filename, 'w') raises: except Exception, return False
          w_ret' = "False" /\ w_dirs' = TRUE /\ UNCHANGED w_file
     ELSE LET fieldnames == Keys(w_data.recs[1])
              body == WriteRows(w_data.recs, fieldnames, 1)
          IN /\ w_dirs' = TRUE
             \* writeheader, then writerows up to the row that raises
             /\ w_file' = [exists |-> TRUE, text |-> WriteRow(fieldnames) \o body.text]
             /\ w_ret' = IF body.raised THEN "False" ELSE "True"
  /\ w_pc' = "done"
  /\ UNCHANGED <<w_op, w_data, w_dict, w_filename, w_io, w_book>>
  /\ WFrame

(* --------------------------- save_to_excel ---------------------------- *)
SheetNames == {"A", "B"}

\* one record, used to fill the datasets of a workbook
SheetRecord == <<<<<<"a">>, <<"x">>>>>>

ExcelDatasets == {ReturnsNone} \cup {Returns(Repeat(SheetRecord, n)) : n \in 0..MaxRecords}

\* data_dict: the <<sheet_name, data>> items in insertion order
DataDicts ==
  {d \in SeqsUpTo(SheetNames \X ExcelDatasets, Cardinality(SheetNames)) :
     NoRepeat([i \in 1..Len(d) |-> d[i][1]])}

NoBook == [exists |-> FALSE, sheets |-> <<>>]

\* a loop that writes a sheet only for the datasets that hold rows
RECURSIVE SheetsWithData(_, _)
SheetsWithData(data_dict, i) ==
  IF i > Len(data_dict) THEN <<>>
  ELSE (IF IsEmpty(data_dict[i][2]) THEN <<>>
        ELSE <<[name |-> data_dict[i][1], rows |-> Len(data_dict[i][2].recs)]>>)
       \o SheetsWithData(data_dict, i + 1)

\* `for sheet_name, data in data_dict.items()`: the DataFrame of the data, or
\* an empty DataFrame, written to the sheet named sheet_name
RECURSIVE Sheets(_, _)
Sheets(data_dict, i) ==
  IF i > Len(data_dict) THEN <<>>
  ELSE <<[name |-> data_dict[i][1],
          rows |-> IF IsEmpty(data_dict[i][2]) THEN 0 ELSE Len(data_dict[i][2].recs)]>>
       \o Sheets(data_dict, i + 1)

SaveToExcel ==
  /\ w_pc = "call" /\ w_op = "excel"
  /\ IF w_dict = <<>>
     THEN \* `if not data_dict: return False`
          w_ret' = "False" /\ UNCHANGED <<w_dirs, w_book>>
     ELSE IF MakedirsRaises(w_filename)
     THEN \* os.makedirs is outside the try: the exception leaves the function
          w_ret' = "raised" /\ UNCHANGED <<w_dirs, w_book>>
     ELSE IF w_io = "fails"
     THEN \* pd.ExcelWriter or to_excel raises: except Exception, return False
          w_ret' = "False" /\ w_dirs' = TRUE /\ UNCHANGED w_book
     ELSE /\ w_dirs' = TRUE
          /\ w_book' = [exists |-> TRUE, sheets |-> Sheets(w_dict, 1)]
          /\ w_ret' = "True"
  /\ w_pc' = "done"
  /\ UNCHANGED <<w_op, w_data, w_dict, w_filename, w_io, w_file>>
  /\ WFrame

WStart == w_ret = "none" /\ w_dirs = FALSE /\ w_file = NoCsv /\ w_book = NoBook

WInit ==
  /\ w_op \in {"csv", "excel"}
  /\ IF w_op = "csv" THEN w_data \in Datasets /\ w_dict = <<>>
     ELSE w_data = ReturnsNone /\ w_dict \in DataDicts
  /\ w_filename \in Filenames
  /\ w_io \in {"ok", "fails"}
  /\ w_pc = "call"
  /\ WStart

WIdle ==
  /\ w_op = "none" /\ w_data = ReturnsNone /\ w_dict = <<>>
  /\ w_filename = "dir_ok" /\ w_io = "ok" /\ w_pc = "idle"
  /\ WStart

WNext == SaveToCsv \/ SaveToExcel

(* ====================================================================== *)
(*                 scrapeBillText.py: extract_bill_info                   *)
(* ====================================================================== *)
(* A URL is scheme "://" host "/" seg "/" seg ...; every segment is a       *)
(* non-empty string without "/".                                           *)
Schemes == {"http", "https", "ftp"}

Hosts == {"legiscan.com", "site.example"}

Segments == {"ca", "SB1", "text", "bill", "drafts", "id", "123"}

\* the segments on which \d+ finds at least one leading digit
DigitLed == {"123"}

Urls == [scheme : Schemes, host : Hosts, segs : SeqsUpTo(Segments, MaxSegs)]

\* the common head of the three patterns: https?://legiscan\.com/
LegiscanHead(url) == url.scheme \in {"http", "https"} /\ url.host = "legiscan.com"

\* re.match(text_pattern, url): ([^/]+)/text/([^/]+)/id/(\d+), anchored at
\* the start only
TextMatch(url) ==
  /\ LegiscanHead(url)
  /\ Len(url.segs) >= 5
  /\ url.segs[2] = "text" /\ url.segs[4] = "id" /\ url.segs[5] \in DigitLed

\* re.match(bill_pattern, url): ([^/]+)/bill/([^/]+)/(\d+)
BillMatch(url) ==
  /\ LegiscanHead(url)
  /\ Len(url.segs) >= 4
  /\ url.segs[2] = "bill" /\ url.segs[4] \in DigitLed

\* re.match(drafts_pattern, url): ([^/]+)/drafts/([^/]+)/(\d+)
DraftsMatch(url) ==
  /\ LegiscanHead(url)
  /\ Len(url.segs) >= 4
  /\ url.segs[2] = "drafts" /\ url.segs[4] \in DigitLed

\* f"{state}_{bill_number}" and the literal "unknown_bill", as the strings
\* they are: the pieces in order
FormatKey(state, bill_number) == <<state, "_", bill_number>>

UnknownBill == <<"unknown", "_", "bill">>

\* the same with the host test dropped from the three patterns
ExtractBillInfoAnyHost(url) ==
  LET shape(kind, n) == /\ Len(url.segs) >= n
                        /\ url.segs[2] = kind /\ url.segs[n] \in DigitLed
  IN IF (shape("text", 5) /\ url.segs[4] = "id") \/ shape("bill", 4)
        \/ shape("drafts", 4)
     THEN FormatKey(url.segs[1], url.segs[3])
     ELSE UnknownBill

\* extract_bill_info: group(1) and group(2) of the first pattern that matches
ExtractBillInfo(url) ==
  IF TextMatch(url) THEN FormatKey(url.segs[1], url.segs[3])
  ELSE IF BillMatch(url) THEN FormatKey(url.segs[1], url.segs[3])
  ELSE IF DraftsMatch(url) THEN FormatKey(url.segs[1], url.segs[3])
  ELSE UnknownBill

CallExtractBillInfo ==
  /\ k_pc = "call"
  /\ k_key' = ExtractBillInfo(k_url)
  /\ k_pc' = "done"
  /\ UNCHANGED k_url
  /\ KFrame

KInit == k_url \in Urls /\ k_pc = "call" /\ k_key = None

KIdle ==
  /\ k_url = [scheme |-> "https", host |-> "legiscan.com", segs |-> <<>>]
  /\ k_pc = "idle" /\ k_key = None

KNext == CallExtractBillInfo

(* ====================================================================== *)
(*               scrapeBillText.py: extract_html_bill_text                *)
(* ====================================================================== *)
BillNames == {"CA_AB1", "TX_HB2"}

Stamps == 1..MaxStamps

\* what the lookups of extract_html_bill_text find on the page: an element
\* of class billtext, of id bill_all, of id bill, and whether
\* driver.page_source is a non-empty string
HtmlPages == [billtext : BOOLEAN, bill_all : BOOLEAN, bill : BOOLEAN,
              source : BOOLEAN]

NoPage == [billtext |-> FALSE, bill_all |-> FALSE, bill |-> FALSE,
           source |-> FALSE]

\* the step of the call that raises: a driver call of the container lookups
\* (other than NoSuchElementException), open() or write() of the .html file,
\* the lookup of <body>, open() or write() of the .txt file
HtmlFaults == {"none", "find", "html_open", "html_write", "body", "txt_open",
               "txt_write"}

\* get_attribute('outerHTML') of an element, driver.page_source and
\* body.text, as the strings they return
OuterHtml(container) == <<container>>

PageSource(page) == IF page.source THEN <<"page_source">> ELSE <<>>

BodyText == <<"body_text">>

\* a lookup order that starts from the least specific container
HtmlContentBillFirst(page) ==
  IF page.bill THEN OuterHtml("bill")
  ELSE IF page.bill_all THEN OuterHtml("bill_all")
  ELSE IF page.billtext THEN OuterHtml("billtext")
  ELSE PageSource(page)

\* html_content after the four tries: class billtext, `if not html_content`
\* id bill_all, then id bill, then driver.page_source
HtmlContent(page) ==
  IF page.billtext THEN OuterHtml("billtext")
  ELSE IF page.bill_all THEN OuterHtml("bill_all")
  ELSE IF page.bill THEN OuterHtml("bill")
  ELSE PageSource(page)

\* f"{bill_name}_{timestamp}.html" and f"{bill_name}_{timestamp}.txt"
HtmlFilename(bill_name, timestamp) == <<bill_name, timestamp, "html">>

HtmlTextFilename(bill_name, timestamp) == <<bill_name, timestamp, "txt">>

NoFiles == [n \in {} |-> <<>>]

\* with open(path, 'w') as f: f.write(data): the file is created or
\* truncated, then filled
WriteFile(dir, name, data) ==
  [n \in (DOMAIN dir) \cup {name} |-> IF n = name THEN data ELSE dir[n]]

\* an extraction that survives a failure of the text-only copy
ExtractHtmlKeepingHtml(dir, bill_name, page, now, fault) ==
  LET html_content == HtmlContent(page)
      file_path == HtmlFilename(bill_name, now)
      written == WriteFile(dir, file_path, html_content)
  IN  IF fault \in {"find", "html_open"} \/ html_content = <<>>
  THEN [ret |-> None, dir |-> dir]
  ELSE IF fault = "html_write"
  THEN [ret |-> None, dir |-> WriteFile(dir, file_path, <<>>)]
  ELSE IF fault = "none"
  THEN [ret |-> file_path,
        dir |-> WriteFile(written, HtmlTextFilename(bill_name, now), BodyText)]
  ELSE [ret |-> file_path, dir |-> written]

\* extract_html_bill_text: what it returns and what it leaves in
\* download_dir. open(..., 'w') that raises leaves the directory as it was,
\* write() that raises leaves the file truncated; every exception ends in
\* `except Exception: return None`
ExtractHtmlBillText(dir, bill_name, page, now, fault) ==
  LET html_content == HtmlContent(page)
      file_path == HtmlFilename(bill_name, now)
      text_path == HtmlTextFilename(bill_name, now)
      written == WriteFile(dir, file_path, html_content)
  IN  IF fault = "find" THEN [ret |-> None, dir |-> dir]
      ELSE IF html_content = <<>> THEN [ret |-> None, dir |-> dir]
      ELSE IF fault = "html_open" THEN [ret |-> None, dir |-> dir]
      ELSE IF fault = "html_write"
      THEN [ret |-> None, dir |-> WriteFile(dir, file_path, <<>>)]
      ELSE IF fault \in {"body", "txt_open"}
      THEN [ret |-> None, dir |-> written]
      ELSE IF fault = "txt_write"
      THEN [ret |-> None, dir |-> WriteFile(written, text_path, <<>>)]
      ELSE [ret |-> file_path, dir |-> WriteFile(written, text_path, BodyText)]

HFrame == UNCHANGED <<rvars, dvars, bvars, kvars, xvars, wvars, lvars>>

\* one retrieval of the bill reaches extract_html_bill_text: the page the
\* driver shows, the reading of datetime.now() and the step that raises are
\* the environment's. datetime.now() is the local wall clock formatted to
\* the second: runs of the script side by side, or a clock that was set
\* back, read a value that was read before.
CallExtractHtml ==
  /\ h_pc = "call" /\ h_calls < MaxCalls
  /\ \E page \in HtmlPages, now \in Stamps, fault \in HtmlFaults :
       LET out == ExtractHtmlBillText(h_dir, h_bill, page, now, fault)
       IN  /\ h_page' = page /\ h_now' = now /\ h_fault' = fault
           /\ h_ret' = out.ret
           /\ h_dir' = out.dir
           /\ h_artifacts' =
                IF out.ret = None THEN h_artifacts
                ELSE h_artifacts \cup {HtmlFilename(h_bill, now),
                                       HtmlTextFilename(h_bill, now)}
  /\ h_calls' = h_calls + 1
  /\ UNCHANGED <<h_bill, h_pc>>
  /\ HFrame

HStart ==
  /\ h_calls = 0 /\ h_page = NoPage /\ h_now = 0 /\ h_fault = "none"
  /\ h_ret = None /\ h_dir = NoFiles /\ h_artifacts = {}

HInit == h_bill \in BillNames /\ h_pc = "call" /\ HStart

HIdle == h_bill = "CA_AB1" /\ h_pc = "idle" /\ HStart

HNext == CallExtractHtml

(* ====================================================================== *)
(*               billDashboardScraper.py: human_like_delay                *)
(* ====================================================================== *)
\* np.random.uniform(2, 7), np.random.uniform(5, 15) and
\* np.random.normal(0, 0.5), in ticks
BaseDraws == (2 * Unit)..(7 * Unit)

ExtraDraws == (5 * Unit)..(15 * Unit)

MicroDraws == (0 - MaxJitter)..MaxJitter

\* a delay without the floor
HumanLikeDelayUnfloored(base, tail, extra, micro) ==
  (IF tail THEN base + extra ELSE base) + micro

\* human_like_delay: base_delay, `+=` the long pause when the 20% draw
\* hits, then max(1, base_delay + micro_delay)
HumanLikeDelay(base, tail, extra, micro) ==
  LET base_delay == IF tail THEN base + extra ELSE base
      sum == base_delay + micro
  IN  IF 1 * Unit >= sum THEN 1 * Unit ELSE sum

LFrame == UNCHANGED <<rvars, dvars, bvars, kvars, xvars, wvars, hvars>>

CallHumanLikeDelay ==
  /\ l_pc = "call"
  /\ \E base \in BaseDraws, tail \in BOOLEAN, micro \in MicroDraws :
       \E extra \in (IF tail THEN ExtraDraws ELSE {0}) :
         /\ l_base' = base /\ l_tail' = tail /\ l_extra' = extra
         /\ l_micro' = micro
         /\ l_delay' = HumanLikeDelay(base, tail, extra, micro)
  /\ l_pc' = "done"
  /\ LFrame

LStart ==
  l_base = 0 /\ l_tail = FALSE /\ l_extra = 0 /\ l_micro = 0 /\ l_delay = 0

LInit == l_pc = "call" /\ LStart

LIdle == l_pc = "idle" /\ LStart

LNext == CallHumanLikeDelay

(* --------------------------- specifications --------------------------- *)
Init == RInit /\ DIdle /\ BIdle /\ KIdle /\ XIdle /\ WIdle /\ HIdle /\ LIdle

Next == RNext

\* download_bill_text, one call
Spec == Init /\ [][Next]_vars

\* the per-jurisdiction sweep of billDashboardScraper.py
InitDash == RIdle /\ DInit /\ BIdle /\ KIdle /\ XIdle /\ WIdle /\ HIdle /\ LIdle

SpecDash == InitDash /\ [][DNext]_vars

\* the per-URL sweep of batch_scrape.py
InitBatch == RIdle /\ DIdle /\ BInit /\ KIdle /\ XIdle /\ WIdle /\ HIdle /\ LIdle

SpecBatch == InitBatch /\ [][BNext]_vars

\* extract_bill_info, one call
InitKey == RIdle /\ DIdle /\ BIdle /\ KInit /\ XIdle /\ WIdle /\ HIdle /\ LIdle

SpecKey == InitKey /\ [][KNext]_vars

\* the five section extractors on one parsed page
InitExtract == RIdle /\ DIdle /\ BIdle /\ KIdle /\ XInit /\ WIdle /\ HIdle /\ LIdle

SpecExtract == InitExtract /\ [][XNext]_vars

\* save_to_csv or save_to_excel, one call
InitWrite == RIdle /\ DIdle /\ BIdle /\ KIdle /\ XIdle /\ WInit /\ HIdle /\ LIdle

SpecWrite == InitWrite /\ [][WNext]_vars

\* extract_html_bill_text, called repeatedly for one bill
InitHtml == RIdle /\ DIdle /\ BIdle /\ KIdle /\ XIdle /\ WIdle /\ HInit /\ LIdle

SpecHtml == InitHtml /\ [][HNext]_vars

\* human_like_delay, one call
InitDelay == RIdle /\ DIdle /\ BIdle /\ KIdle /\ XIdle /\ WIdle /\ HIdle /\ LInit

SpecDelay == InitDelay /\ [][LNext]_vars

(* ====================================================================== *)
(*                    Properties of download_bill_text                    *)
(* ====================================================================== *)
Max(a, b) == IF a >= b THEN a ELSE b

(* C1: at most one browser session is open at any moment, the session an   *)
(* attempt works with is the one created for it, and no session is open    *)
(* once download_bill_text is over.                                        *)
C1_OneSessionAndReleased ==
  /\ Cardinality(sessions) <= 1
  /\ (pc \in {"nav", "check", "recheck", "route", "classify"}
        => driver = created /\ driver \in sessions)
  /\ (returned # "running" => sessions = {})

(* C3: one attempt per proxy in the supplied order (one attempt without a  *)
(* proxy list), never more than max(1, len(proxy_list)) attempts; the      *)
(* first successful attempt ends the call, which returns its artifact      *)
(* path; failure is returned only when every proxy was tried.              *)
C3_ProxyOrder ==
  /\ proxy_idx <= Max(1, Len(proxy_list))
  /\ (proxy_list # <<>> => tried = SubSeq(proxy_list, 1, proxy_idx))
  /\ (proxy_list = <<>> /\ pc = "done" => proxy_idx = 1)
  /\ (last_end = "success" => pc \in {"finally", "done"})
  /\ (last_end = "success" /\ pc = "done"
        => returned = "returned" /\ retval = result /\ retval # None)
  /\ (returned = "returned" /\ retval = None
        => proxy_idx = Len(ProxiesToTry) /\ last_end # "success")

(* C4: when no attempt succeeded, the call ends by returning None; no      *)
(* exception leaves download_bill_text.                                    *)
C4_FailureIsReturned ==
  (pc = "done" /\ last_end # "success")
    => (returned = "returned" /\ retval = None)

(* C5: a challenge marker causes exactly one cooldown and one re-check in  *)
(* the attempt; a persisting marker fails the attempt before any           *)
(* classification or extraction, and the next proxy, if any, is tried.     *)
C5_ChallengeOnce ==
  /\ cooldowns <= 1 /\ rechecks <= 1 /\ rechecks <= cooldowns
  /\ (pc \in {"recheck", "quit_blocked"} => cooldowns = 1)
  /\ (pc = "quit_blocked" => rechecks = 1)
  /\ (last_end = "blocked" /\ pc \in {"finally", "loop", "done"}
        => cooldowns = 1 /\ rechecks = 1 /\ branch = "none")
  /\ (last_end = "blocked" /\ pc = "done" => proxy_idx = Len(ProxiesToTry))

(* C9: once download_pdf_bill has returned (success, conversion failure,   *)
(* timeout, nothing found), no PDF it caused to be downloaded is in the    *)
(* download directory.                                                     *)
C9_NoPdfLeft ==
  pdf_step \in {"ok", "convfail", "timeout", "nopdf", "error"}
    => ~pdf_file.exists

\* the pages' texts in page order with a blank line between two pages,
\* built from the last page backwards
RECURSIVE BlankLineJoined(_)
BlankLineJoined(pages) ==
  IF Len(pages) = 0 THEN <<>>
  ELSE IF Len(pages) = 1 THEN pages[1]
  ELSE BlankLineJoined(SubSeq(pages, 1, Len(pages) - 1))
         \o <<"\n", "\n">> \o pages[Len(pages)]

(* C10: a PDF that appeared before the timeout is converted: the step      *)
(* writes <base>.txt beside <base>.pdf, holding every page's text in page  *)
(* order joined by a blank line, and returns that path; when the           *)
(* extraction raises, no .txt is written and the step returns None.        *)
C10_ConversionStep ==
  /\ (pdf_step' = "ok"
        => /\ txt_file'.exists
           /\ txt_file'.name = <<pdf_file.name[1], "txt">>
           /\ txt_file'.data = BlankLineJoined(pdf_file.data)
           /\ result' = txt_file'.name)
  /\ (pdf_step' = "convfail" => txt_file' = txt_file /\ result' = None)

C10_PdfToText == [][pc = "pdf_convert" => C10_ConversionStep]_vars

C10_Witness ==
  /\ pdf_step = "ok"
  /\ result = <<"SB1", "txt">>
  /\ txt_file.exists
  /\ txt_file.data = <<"a", "\n", "\n", "b">>

(* ====================================================================== *)
(*                 Properties of the dashboard scraper                    *)
(* ====================================================================== *)
(* C2: a session created by the live fetch is closed on every way out of   *)
(* _initialize_scraper (return, TimeoutException, WebDriverException, any  *)
(* other exception), and the inline and file modes create none.            *)
C2_SessionReleased ==
  /\ (d_pc \notin {"fetch_nav", "fetch_finally"} => d_sessions = {})
  /\ (d_mode \in {"inline", "file"} => d_opened = 0 /\ d_driver = NoDriver)
  /\ Cardinality(d_sessions) <= 1

C2_Witness ==
  /\ d_pc = "scrape" /\ d_mode = "live" /\ d_exit = "timeout"
  /\ d_opened = 1 /\ d_sessions = {}

(* C6: a live fetch whose rendered page holds a challenge marker fails:    *)
(* no parsed document reaches the extractor.                               *)
C6_ChallengeBlocked ==
  (d_pc = "scrape" /\ d_mode = "live" /\ d_marker) => d_soup = "none"

StatusOf(state) ==
  LET n == CHOOSE n \in 1..Len(results) : results[n][1] = state
  IN  results[n][2]

SweepRecorded(statuses) ==
  /\ Len(results) = Len(states_to_scrape)
  /\ \A n \in 1..Len(results) :
       /\ results[n][1] = states_to_scrape[n]
       /\ results[n][2] \in statuses

(* C7 as stated: when the sweep is over every jurisdiction of the list     *)
(* has exactly one status, one of Success, Failed, Error.                  *)
C7_StatusesAsStated ==
  d_pc = "done" => SweepRecorded({"Success", "Failed", "Error"})

\* an exception left scrape_state for the current jurisdiction
Threw == d_exit \in {"quit_error", "unexpected"}

(* C7, amended: when the sweep is over every jurisdiction of the list has  *)
(* exactly one status, one of Success, Failed, ERROR; a jurisdiction whose *)
(* processing raised gets ERROR, and only such a one; the jurisdictions    *)
(* after it are processed and recorded all the same.                       *)
C7_TerminalStatuses ==
  /\ (d_pc = "done" => SweepRecorded({"Success", "Failed", "ERROR"}))
  /\ (d_pc \in {"wait", "loop", "done"}
        => /\ Len(results) = d_i
           /\ \A n \in 1..d_i : results[n][1] = states_to_scrape[n])
  /\ (d_pc = "wait" => (StatusOf(CurState) = "ERROR" <=> Threw))

C7_Witness ==
  /\ d_pc = "done"
  /\ Len(results) = 3
  /\ results[1][2] = "Success" /\ results[2][2] = "ERROR"
  /\ results[3][2] = "Success"

(* ====================================================================== *)
(*                    Properties of process_csv_files                     *)
(* ====================================================================== *)
(* C8: an exception while one URL is processed is contained to that URL:   *)
(* when the batch is over, download_bill_text was called for every row     *)
(* with an http URL of every file that has the URL column.                 *)
C8_ErrorContained ==
  b_pc = "done"
    => \A f \in 1..Len(b_files) : \A r \in 1..Len(b_files[f].rows) :
         b_files[f].rows[r] = "http" => <<f, r>> \in b_attempted

(* ====================================================================== *)
(*                    Properties of extract_bill_info                     *)
(* ====================================================================== *)
\* the path of the URL has one of the three shapes
\* /{jurisdiction}/text/{billnum}/id/{id}, /{jurisdiction}/bill/{billnum}/{id},
\* /{jurisdiction}/drafts/{billnum}/{id}
HasShape(segs) ==
  \/ Len(segs) = 5 /\ segs[2] = "text" /\ segs[4] = "id"
  \/ Len(segs) = 4 /\ segs[2] \in {"bill", "drafts"}

\* C11 as stated: whatever the host, a URL of one of the three shapes gives
\* "{jurisdiction}_{billnumber}" (https://site.example/ca/bill/SB1/123 gives
\* ca_SB1), and every other URL gives "unknown_bill".
C11_AnyHostKey ==
  k_pc = "done" =>
    IF HasShape(k_url.segs)
    THEN k_key = <<k_url.segs[1], "_", k_url.segs[3]>>
    ELSE k_key = <<"unknown", "_", "bill">>

\* the URL starts with http(s)://legiscan.com/, then a jurisdiction, one of
\* the three section words, a bill number (then "id" for the text shape)
\* and an id that starts with a digit; anything may follow
StartsWithLegiscanShape(url) ==
  /\ url.scheme # "ftp" /\ url.host = "legiscan.com"
  /\ \E n \in 4..Len(url.segs) :
       /\ url.segs[n] \in DigitLed
       /\ \/ n = 4 /\ url.segs[2] \in {"bill", "drafts"}
          \/ n = 5 /\ url.segs[2] = "text" /\ url.segs[4] = "id"

\* C11: extract_bill_info returns "{jurisdiction}_{billnumber}" exactly for
\* the URLs that start with http(s)://legiscan.com/ followed by one of the
\* three shapes with a numeric id, and "unknown_bill" for every other URL.
C11_LegiscanKey ==
  k_pc = "done" =>
    IF StartsWithLegiscanShape(k_url)
    THEN k_key = <<k_url.segs[1], "_", k_url.segs[3]>>
    ELSE k_key = <<"unknown", "_", "bill">>

\* a LegiScan bill URL was given and its key came back
C11_Witness ==
  /\ k_pc = "done"
  /\ k_url = [scheme |-> "https", host |-> "legiscan.com",
              segs |-> <<"ca", "bill", "SB1", "123">>]
  /\ k_key = <<"ca", "_", "SB1">>

(* ====================================================================== *)
(*                  Properties of the section extractors                  *)
(* ====================================================================== *)
\* the anchor of section k, 0 when the document lacks it
AnchorAt(k) ==
  LET hits == {i \in 1..Len(x_doc) : x_doc[i] = Anchor(AnchorNames[k])}
  IN IF hits = {} THEN 0 ELSE CHOOSE i \in hits : \A h \in hits : i <= h

\* the positions of the tables that follow position a, in document order
RECURSIVE TablesAfter(_)
TablesAfter(a) ==
  IF a >= Len(x_doc) THEN <<>>
  ELSE (IF x_doc[a + 1].kind = "table" THEN <<a + 1>> ELSE <<>>)
       \o TablesAfter(a + 1)

\* the tables section k is read from: the first one after its anchor, the
\* first two for sponsors and committees
SectionTables(k) ==
  LET after == TablesAfter(AnchorAt(k))
      n == IF k \in ChamberSections THEN 2 ELSE 1
  IN IF AnchorAt(k) = 0 THEN <<>>
     ELSE SubSeq(after, 1, IF Len(after) < n THEN Len(after) ELSE n)

\* a data row with at least 3 cells and a link in its first cell
WellFormed(kind) == kind \in {"ok_full", "ok_bare", "notext"}

\* <<table position, row>> of the well-formed rows below the first row of
\* the given tables, in document order
RECURSIVE WellFormedRows(_, _, _)
WellFormedRows(tables, i, r) ==
  IF i > Len(tables) THEN <<>>
  ELSE IF r > Len(x_doc[tables[i]].rows) THEN WellFormedRows(tables, i + 1, 2)
  ELSE (IF WellFormed(x_doc[tables[i]].rows[r]) THEN <<<<tables[i], r>>>> ELSE <<>>)
       \o WellFormedRows(tables, i, r + 1)

SourceRows(k) == WellFormedRows(SectionTables(k), 1, 2)

\* the key of the record's own URL
UrlKey(k) == IF k \in ChamberSections THEN "URL" ELSE "Bill URL"

\* the URL of the link of row r of the table at position j
RowUrl(j, r) ==
  <<"https://legiscan.com", "/href",
    ToString(Cardinality({i \in 1..j : x_doc[i].kind = "table"})), ToString(r)>>

\* every table section k is read from starts with its header row
HeaderFirst(k) ==
  \A i \in 1..Len(SectionTables(k)) :
    LET rows == x_doc[SectionTables(k)[i]].rows
    IN rows = <<>> \/ rows[1] = "th"

\* C12: for every section whose tables start with their header row, the
\* extractor skips the header row and every data row with fewer than 3 cells
\* or without a link in its first cell, and returns exactly one record per
\* remaining row, in row order.
C12_RowsExtracted ==
  x_pc = "done" =>
    \A k \in Sections :
      (x_fault # k /\ SectionTables(k) # <<>> /\ HeaderFirst(k)) =>
        /\ Len(x_out[k].recs) = Len(SourceRows(k))
        /\ \A i \in 1..Len(SourceRows(k)) :
             x_out[k].recs[i][UrlKey(k)] = RowUrl(SourceRows(k)[i][1], SourceRows(k)[i][2])

\* 1 header and 4 data rows, one of them with 2 cells, gave 3 records
C12_Witness ==
  /\ x_pc = "done" /\ x_fault = 0
  /\ x_doc = <<Anchor("latest"), Table(<<"th", "ok_full", "short", "ok_bare", "ok_full">>)>>
  /\ Len(x_out[1].recs) = 3

\* the document with one more element e after position p
InsertAt(doc, p, e) == SubSeq(doc, 1, p) \o <<e>> \o SubSeq(doc, p + 1, Len(doc))

\* C13: on a document without the anchor of a section, that section's
\* extractor returns None (scrape_state goes on to the end), and, no lookup
\* having raised, what the other sections return is what they return when
\* the anchor is there, wherever it is put.
C13_MissingAnchor ==
  x_pc = "done" =>
    \A k \in Sections :
      AnchorAt(k) = 0 =>
        /\ x_out[k] = ReturnsNone
        /\ x_fault = 0 =>
             \A s \in Sections \ {k} : \A p \in 0..Len(x_doc) :
               x_out[s] = ScrapeSection(s, InsertAt(x_doc, p, Anchor(AnchorNames[k])),
                                        FALSE)

\* the sponsors anchor is missing, its tables are there, and the sections
\* around it returned their records
C13_Witness ==
  /\ x_pc = "done" /\ x_fault = 0
  /\ AnchorAt(2) = 0 /\ x_out[2] = ReturnsNone
  /\ \E j \in 1..Len(x_doc) : x_doc[j].kind = "table" /\ j > AnchorAt(1)
                               /\ j < AnchorAt(3)
  /\ \A s \in Sections \ {2} : ~x_out[s].none /\ x_out[s].recs # <<>>

\* C14: the value an extractor returns when the structure lookup raised
\* differs from the value it returns for "no data", that is on a document
\* without its anchor or table.
C14_FailureDistinct ==
  (x_pc = "done" /\ x_fault # 0) =>
    /\ x_out[x_fault] # ScrapeSection(x_fault, <<>>, FALSE)
    /\ x_out[x_fault] # ScrapeSection(x_fault, <<Anchor(AnchorNames[x_fault])>>, FALSE)

\* the row the i-th record of section k was built from
SourceKind(k, i) == x_doc[SourceRows(k)[i][1]].rows[SourceRows(k)[i][2]]

\* the optional fields: summary, action, action URL, action date, text URL,
\* party, RSS URL
OptionalKeys ==
  {"Summary", "Action", "Action URL", "Date", "Text URL", "Party", "RSS URL"}

\* C15: the records of a section all have the same keys, bill identifier and
\* bill URL are never empty, and an optional field that is not found in the
\* row is the empty string.
C15_RecordShape ==
  x_pc = "done" =>
    \A k \in Sections : LET recs == x_out[k].recs IN
      \A i \in 1..Len(recs) :
        /\ DOMAIN recs[i] = DOMAIN recs[1]
        /\ "Bill Number" \in DOMAIN recs[i] =>
             recs[i]["Bill Number"] # <<>> /\ recs[i]["Bill URL"] # <<>>
        /\ (HeaderFirst(k) /\ SourceKind(k, i) = "ok_bare") =>
             \A key \in OptionalKeys \cap DOMAIN recs[i] : recs[i][key] = <<>>

\* the chamber named by the nearest heading before position j
HeadingChambers(j) ==
  LET before == {h \in 1..(j - 1) : x_doc[h].kind = "h"}
      text == x_doc[CHOOSE h \in before : \A g \in before : h >= g].label
  IN IF before = {} THEN {"Unknown"}
     ELSE IF text = "Both" THEN {"House", "Senate"}
     ELSE IF text \in {"House", "Senate"} THEN {text}
     ELSE {"Unknown"}

\* C16: in the sponsors and committees sections, with two tables after the
\* anchor every record of the first has chamber House and every record of
\* the second Senate; with one table its records have the chamber whose
\* name the nearest heading before it contains, Unknown when it names
\* none; the chamber is always one of House, Senate, Unknown.
C16_Chambers ==
  x_pc = "done" =>
    \A k \in ChamberSections : LET recs == x_out[k].recs IN
      (x_fault # k /\ HeaderFirst(k)) =>
        \A i \in 1..Len(recs) :
          LET j == SourceRows(k)[i][1]
              chamber == recs[i]["Chamber"][1]
          IN /\ chamber \in {"House", "Senate", "Unknown"}
             /\ Len(SectionTables(k)) = 2 =>
                  chamber = (IF j = SectionTables(k)[1] THEN "House" ELSE "Senate")
             /\ Len(SectionTables(k)) = 1 => chamber \in HeadingChambers(j)

\* sponsors came from two tables, House then Senate, and committees from one
\* table under a Senate heading
C16_Witness ==
  /\ x_pc = "done" /\ x_fault = 0
  /\ Len(SectionTables(2)) = 2 /\ Len(x_out[2].recs) = 2
  /\ x_out[2].recs[1]["Chamber"] = <<"House">>
  /\ x_out[2].recs[2]["Chamber"] = <<"Senate">>
  /\ Len(SectionTables(3)) = 1 /\ Len(x_out[3].recs) = 1
  /\ HeadingChambers(SectionTables(3)[1]) = {"Senate"}
  /\ x_out[3].recs[1]["Chamber"] = <<"Senate">>

(* ====================================================================== *)
(*              Properties of save_to_csv and save_to_excel               *)
(* ====================================================================== *)
\* the file holds a header row and one row per record, in order
HeaderAndRows(text, recs) ==
  /\ DictReader(text).fieldnames = Keys(recs[1])
  /\ Len(DictReader(text).recs) = Len(recs)

\* C17: save_to_csv never raises; it returns False when the record list is
\* empty or absent or the target directory cannot be created; in every
\* other case it creates the parent directories, writes the header row of
\* the first record's field names and one row per record, and returns True.
C17_CsvContract ==
  (w_pc = "done" /\ w_op = "csv") =>
    /\ w_ret \in {"True", "False"}
    /\ IF IsEmpty(w_data) \/ w_filename = "dir_blocked"
       THEN w_ret = "False"
       ELSE /\ w_ret = "True" /\ w_dirs /\ w_file.exists
            /\ HeaderAndRows(w_file.text, w_data.recs)

\* the records all have the key set of the first one
SameKeySets(recs) == \A i \in 1..Len(recs) : KeySet(recs[i]) = KeySet(recs[1])

C19_SheetPerDataset ==
  (w_pc = "done" /\ w_op = "excel" /\ w_dict # <<>>
     /\ ~MakedirsRaises(w_filename) /\ w_io = "ok") =>
    /\ w_ret = "True" /\ w_book.exists
    /\ Len(w_book.sheets) = Len(w_dict)
    /\ {w_book.sheets[i].name : i \in 1..Len(w_book.sheets)}
         = {w_dict[i][1] : i \in 1..Len(w_dict)}
    /\ \A i \in 1..Len(w_dict) : \E j \in 1..Len(w_book.sheets) :
         /\ w_book.sheets[j].name = w_dict[i][1]
         /\ w_book.sheets[j].rows
              = (IF w_dict[i][2].none THEN 0 ELSE Len(w_dict[i][2].recs))

\* {A: 2 rows, B: []} gave the sheets A, with 2 rows, and B, empty
C19_Witness ==
  /\ w_pc = "done" /\ w_op = "excel" /\ w_ret = "True"
  /\ w_dict = << <<"A", Returns(<<SheetRecord, SheetRecord>>)>>, <<"B", Returns(<<>>)>> >>
  /\ w_book.sheets = <<[name |-> "A", rows |-> 2], [name |-> "B", rows |-> 0]>>

(* ====================================================================== *)
(*                 Properties of the format classification                *)
(* ====================================================================== *)
\* the page holds the literal [HTML], a billtext-class or a bill_all-id element
HtmlIndicator(page) == page.html_marker \/ page.billtext \/ page.bill_all

\* HTML with an HTML indicator, PDF with a PDF object or link and no HTML
\* indicator, HTML with neither
ClassOf(page) ==
  IF HtmlIndicator(page) THEN "html"
  ELSE IF page.pdf_elem THEN "pdf"
  ELSE "html"

\* the format check has just been made, with no format preference
JustClassified ==
  pc \in {"html", "pdf_find"} /\ text_page # <<>> /\ prefer_format = "none"

\* C20 as stated: with no format preference the extraction path taken is
\* the class of the page: HTML with an HTML indicator, PDF with a PDF
\* element and no HTML indicator, HTML with neither.
C20_PathIsClass ==
  JustClassified =>
    /\ branch = ClassOf(text_page[1])
    /\ pc = (IF branch = "html" THEN "html" ELSE "pdf_find")

\* C20: with no format preference, when the inspection of the page raises
\* no error the extraction path taken is the class of the page (HTML with an
\* HTML indicator, PDF with a PDF element and no HTML indicator, HTML with
\* neither); when it raises, the PDF path is taken.
C20_PathIsClassUnlessError ==
  JustClassified =>
    /\ branch = (IF text_page[1].error THEN "pdf" ELSE ClassOf(text_page[1]))
    /\ pc = (IF branch = "html" THEN "html" ELSE "pdf_find")

\* a page with a PDF link and no HTML indicator was sent down the PDF path
C20_Witness ==
  /\ JustClassified
  /\ text_page[1] = [html_marker |-> FALSE, billtext |-> FALSE, bill_all |-> FALSE,
                      pdf_elem |-> TRUE, error |-> FALSE]
  /\ branch = "pdf" /\ pc = "pdf_find"

(* ====================================================================== *)
(*                  Properties of the format preference                   *)
(* ====================================================================== *)
\* the format check has just been made for a caller that gave a preference
JustRouted(pref) ==
  pc \in {"html", "pdf_find"} /\ text_page # <<>> /\ prefer_format = pref

HtmlReturnedPath == h_calls > 0 /\ h_ret # None

(* C22: whenever extract_html_bill_text returns a path, it is the path of   *)
(* the timestamped .html file, and that file and the .txt file of the same *)
(* bill key and timestamp are in the directory with what the call wrote;   *)
(* when opening or writing either file fails it returns None.              *)
C22_BothWritten ==
  /\ HtmlReturnedPath =>
       /\ h_ret = <<h_bill, h_now, "html">>
       /\ {h_ret, <<h_bill, h_now, "txt">>} \subseteq DOMAIN h_dir
       /\ h_dir[h_ret] # <<>>
       /\ h_dir[<<h_bill, h_now, "txt">>] = BodyText
  /\ h_fault \in {"html_open", "html_write", "txt_open", "txt_write"}
       => h_ret = None

\* a call returned the .html path and the directory holds the pair
C22_Witness ==
  /\ HtmlReturnedPath /\ h_calls = 1
  /\ h_ret = <<"CA_AB1", 1, "html">>
  /\ DOMAIN h_dir = {<<"CA_AB1", 1, "html">>, <<"CA_AB1", 1, "txt">>}

(* C23: a call of extract_html_bill_text that returns a path wrote files   *)
(* distinct from those of every earlier call that returned a path for the  *)
(* same bill and directory.                                                *)
C23_NeverOverwrites ==
  [][(h_calls' # h_calls /\ h_ret' # None)
       => {<<h_bill, h_now', "html">>, <<h_bill, h_now', "txt">>}
            \cap h_artifacts = {}]_vars

(* C28: the markup saved is that of the first container found in the order *)
(* billtext class, bill_all id, bill id, and the full page source exactly  *)
(* when none of the three exists.                                          *)
C28_ContainerOrder ==
  HtmlReturnedPath =>
    LET saved == h_dir[h_ret]
    IN  /\ saved = <<"billtext">> <=> h_page.billtext
        /\ saved = <<"bill_all">> <=> (~h_page.billtext /\ h_page.bill_all)
        /\ saved = <<"bill">>
             <=> (~h_page.billtext /\ ~h_page.bill_all /\ h_page.bill)
        /\ saved = <<"page_source">>
             <=> (~h_page.billtext /\ ~h_page.bill_all /\ ~h_page.bill)

\* a page with a bill_all and a bill container and no billtext container:
\* the bill_all markup was saved
C28_Witness ==
  /\ HtmlReturnedPath
  /\ h_page = [billtext |-> FALSE, bill_all |-> TRUE, bill |-> TRUE,
               source |-> TRUE]
  /\ h_dir[h_ret] = <<"bill_all">>

(* ====================================================================== *)
(*              Properties of the per-URL sweep's accounting              *)
(* ====================================================================== *)
\* the rows of the input whose URL passes `url.strip().startswith('http')`,
\* in the files that have the URL column
HttpRows ==
  {fr \in (1..Len(b_files)) \X (1..MaxRows) :
     /\ b_files[fr[1]].has_column
     /\ fr[2] <= Len(b_files[fr[1]].rows)
     /\ b_files[fr[1]].rows[fr[2]] = "http"}

(* C24: when the sweep is over, the retriever was invoked for exactly the  *)
(* rows whose URL starts with an HTTP scheme, once each, and the processed *)
(* count is their number: rows with another non-empty value and rows with  *)
(* an empty value changed no counter and invoked nothing.                  *)
C24_RowAccounting ==
  b_pc = "done" =>
    /\ b_attempted = HttpRows
    /\ processed_urls = Cardinality(HttpRows)

(* C29: when process_csv_files finishes, the processed-URL count equals    *)
(* the successful-download count plus the failed-download count.           *)
C29_CountsAddUp ==
  b_pc = "done" => processed_urls = successful_downloads + failed_downloads

(* ====================================================================== *)
(*                Properties of the inter-jurisdiction wait               *)
(* ====================================================================== *)
\* the sweep is inside the processing of jurisdiction d_i, or has just
\* recorded its status
InsideState ==
  d_pc \in {"init", "file_load", "fetch_start", "fetch_nav", "fetch_finally",
            "scrape", "wait"}

(* C25: one wait follows the recording of the status of every jurisdiction *)
(* but the last and precedes the start of the next: while jurisdiction i   *)
(* is processed i-1 waits were made, the status is recorded when the wait  *)
(* is due, and when the sweep of n >= 1 jurisdictions is over n-1 waits    *)
(* were made, whether or not a jurisdiction ended with an exception.       *)
C25_WaitsBetween ==
  LET n == Len(states_to_scrape)
  IN  /\ (InsideState => d_waits = d_i - 1)
      /\ (d_pc = "wait" => Len(results) = d_i)
      /\ (d_pc = "loop" /\ d_i > 0
            => d_waits = (IF d_i < n THEN d_i ELSE n - 1))
      /\ (d_pc = "done" /\ n >= 1 => d_waits = n - 1)
      /\ (n = 0 => d_waits = 0)

\* three jurisdictions, the second ended with an exception: two waits
C25_Witness ==
  /\ d_pc = "done" /\ Len(states_to_scrape) = 3
  /\ results[2][2] = "ERROR"
  /\ d_waits = 2

(* ====================================================================== *)
(*                     Properties of human_like_delay                     *)
(* ====================================================================== *)
(* C26: every value human_like_delay returns is at least 1 second, for     *)
(* every base draw, with and without the long pause, for every jitter.     *)
C26_AtLeastOne == l_pc = "done" => l_delay >= 1 * Unit

\* the smallest base draw with the most negative jitter, without the long
\* pause: the sum is below 1 second and 1 second is returned
C26_Witness ==
  /\ l_pc = "done" /\ ~l_tail
  /\ l_base = 2 * Unit /\ l_micro = 0 - MaxJitter
  /\ l_base + l_micro < 1 * Unit
  /\ l_delay = 1 * Unit

(* ====================================================================== *)
(*             Properties of the navigation to the text page              *)
(* ====================================================================== *)
Looked(n, what) == \E i \in 1..Len(n.lookups) : n.lookups[i] = what

(* C27: for a summary-page URL the link of the last-action region is       *)
(* looked for first, the Texts tab only if that link is absent, the draft  *)
(* link only if the tab led to a drafts page; when the tab or the draft    *)
(* link is looked for and missing the attempt ends without classification  *)
(* or extraction; a URL that is no summary page is classified without any  *)
(* of these lookups.                                                       *)
C27_NavigationOrder ==
  /\ (pc = "classify" => (nav = <<>> <=> ~url_is_summary))
  /\ (nav # <<>> =>
        LET n == nav[1]
        IN  /\ n.lookups[1] = LastAction
            /\ (Looked(n, TextsTab) <=> n.page.status = "absent")
            /\ (Looked(n, DraftLink)
                  <=> (Looked(n, TextsTab) /\ n.page.tab_follow = "ok"
                         /\ n.page.drafts))
            /\ ((Looked(n, TextsTab) /\ n.page.tab = "absent")
                  => pc = "quit_nolink")
            /\ ((Looked(n, DraftLink) /\ n.page.draft = "absent")
                  => pc = "quit_nolink"))
  /\ (last_end = "nolink" /\ pc \in {"finally", "loop", "done"}
        => branch = "none")

(* ====================================================================== *)
(*                 Properties of scrape_state's result                    *)
(* ====================================================================== *)
\* scrape_state has returned for the current jurisdiction, with a parsed
\* page and output files that can be written
ScrapedAndWritable ==
  d_pc = "wait" /\ ~Threw /\ d_soup = "parsed" /\ d_io = "ok"

SomeData == \E k \in Sections : d_sections[k]

AllData == \A k \in Sections : d_sections[k]

(* C30: with a parsed page and writable output, scrape_state returns True  *)
(* (status Success) when no section yielded data; when a section yielded   *)
(* data it returns True only if all five did; with some but not all the    *)
(* status is Failed and the CSV of every section with data and the         *)
(* workbook are written all the same.                                      *)
C30_ResultOfSections ==
  ScrapedAndWritable =>
    /\ (~SomeData => StatusOf(CurState) = "Success")
    /\ (SomeData /\ StatusOf(CurState) = "Success" => AllData)
    /\ (SomeData /\ ~AllData =>
          /\ StatusOf(CurState) = "Failed"
          /\ d_csvs = {k \in Sections : d_sections[k]}
          /\ d_xlsx)

\* one section alone yielded data: Failed, with its CSV and the workbook
C30_Witness ==
  /\ ScrapedAndWritable
  /\ d_sections = [k \in Sections |-> k = 1]
  /\ StatusOf(CurState) = "Failed"
  /\ d_csvs = {1} /\ d_xlsx

====
